---- MODULE Spec2Model ----
(***************************************************************************)
(* A model of the TI ICDI debug-probe driver of probe-rs: the GDB remote   *)
(* serial protocol framing over USB bulk transfers (send_packet), the      *)
(* response buffer (from_bulk_receive, get_payload, check_cmd_result) and  *)
(* the binary memory commands (read_mem_int, write_mem_int).               *)
(*                                                                         *)
(* Bytes are the integers 0..255, byte strings are sequences of bytes.     *)
(* Rust indices are 0-based; sequences here are 1-based, so the byte at    *)
(* Rust index i is s[i + 1].                                               *)
(***************************************************************************)
EXTENDS Integers, Sequences, FiniteSets, TLC

\* ------------------------------------------------------------ byte codes
DOLLAR == 36
HASH == 35
RBRACE == 125
STAR == 42
PLUS == 43
MINUS == 45
COLON == 58
COMMA == 44
CH_X == 88
CH_x == 120
CH_O == 79
CH_K == 75
CH_E == 69
CH_c == 99
CH_s == 115
QUESTION == 63
CH_p == 112
CH_P == 80
EQUALS == 61
BANG == 33
SEMICOLON == 59
\* the mask of the binary escape, 0x20
ESC_XOR == 32
\* the capacity of a ReceiveBuffer
BUF_SIZE == 2048
\* a loop that runs once more, `0..=3`
OneTryMore == 3 + 1

\* the number of attempts of send_packet
MAX_TRIES == 3

\* ------------------------------------------------------------ helpers
Min(a, b) == IF a < b THEN a ELSE b

\* byte ^ 0x20: flip bit 5
XorEsc(b) == IF (b \div ESC_XOR) % 2 = 1 THEN b - ESC_XOR ELSE b + ESC_XOR

\* one lower-case hex digit, as "{:x}" prints it
HexDigit(n) == IF n < 10 THEN 48 + n ELSE 87 + n

RECURSIVE HexDigits(_)
\* the digits of v in base 16, without padding
HexDigits(v) ==
  IF v < 16 THEN <<HexDigit(v)>>
  ELSE HexDigits(v \div 16) \o <<HexDigit(v % 16)>>

\* "{:0w$x}": at least w digits, zero-padded on the left
HexFmt(v, w) ==
  LET d == HexDigits(v)
  IN  IF Len(d) >= w THEN d ELSE [i \in 1..(w - Len(d)) |-> 48] \o d

\* the value of one hex digit in either case, -1 when it is none
\* (char::to_digit(16), as u8::from_str_radix uses it)
HexVal(ch) ==
  IF ch >= 48 /\ ch <= 57 THEN ch - 48
  ELSE IF ch >= 97 /\ ch <= 102 THEN ch - 87
  ELSE IF ch >= 65 /\ ch <= 70 THEN ch - 55
  ELSE -1

\* a u32 as its two 16-bit halves, hi * 65536 + lo (TLC's integers are
\* signed 32-bit numbers and cannot hold every u32)
U32(hi, lo) == [hi |-> hi, lo |-> lo]

\* "{:08x}" of a u32
HexFmt32(a) == HexFmt(a.hi, 4) \o HexFmt(a.lo, 4)

StartsWith(s, p) == Len(s) >= Len(p) /\ SubSeq(s, 1, Len(p)) = p

\* ------------------------------------------------------------ send buffer
\* a new send buffer holds the leading `$`
NewSendBuffer == <<DOLLAR>>

\* an escape that forgets `*`
EscapeByteNoStar(byte) ==
  IF byte \in {DOLLAR, HASH, RBRACE} THEN <<RBRACE, XorEsc(byte)>>
  ELSE <<byte>>

\* the escape of one data byte in write_mem_int
EscapeByte(byte) ==
  IF byte \in {DOLLAR, HASH, RBRACE, STAR} THEN <<RBRACE, XorEsc(byte)>>
  ELSE <<byte>>

RECURSIVE Escape(_)
\* the loop of write_mem_int over the data bytes (taken half by half, which
\* keeps the evaluation of a long slice shallow)
Escape(data) ==
  IF data = <<>> THEN <<>>
  ELSE IF Len(data) = 1 THEN EscapeByte(data[1])
  ELSE LET h == Len(data) \div 2
       IN  Escape(SubSeq(data, 1, h)) \o Escape(SubSeq(data, h + 1, Len(data)))

\* a header that carries the length of the escaped bytes
WriteMemBufEscLen(addr, data) ==
  NewSendBuffer \o <<CH_X>> \o HexFmt32(addr) \o <<COMMA>>
    \o HexFmt(Len(Escape(data)), 8) \o <<COLON>> \o Escape(data)

\* the buffer write_mem_int hands to send_packet
WriteMemBuf(addr, data) ==
  NewSendBuffer \o <<CH_X>> \o HexFmt32(addr) \o <<COMMA>>
    \o HexFmt(Len(data), 8) \o <<COLON>> \o Escape(data)

\* the buffer read_mem_int hands to send_packet
ReadMemBuf(addr, n) ==
  NewSendBuffer \o <<CH_x>> \o HexFmt32(addr) \o <<COMMA>> \o HexFmt(n, 8)

\* the buffer send_cmd hands to send_packet
SendCmdBuf(cmd) == NewSendBuffer \o cmd

RECURSIVE WrapSum(_, _)
\* fold(acc, |acc, byte| acc.wrapping_add(byte)): wrapping_add is associative,
\* so the two halves are folded apart and their sums added (which keeps the
\* evaluation of a long buffer shallow)
WrapSum(acc, bytes) ==
  IF bytes = <<>> THEN acc
  ELSE IF Len(bytes) = 1 THEN (acc + bytes[1]) % 256
  ELSE LET h == Len(bytes) \div 2
       IN  (WrapSum(acc, SubSeq(bytes, 1, h))
              + WrapSum(0, SubSeq(bytes, h + 1, Len(bytes)))) % 256

\* a checksum that forgets skip(1) and sums the leading `$` too
ChecksumWithDollar(data) == WrapSum(0, data)

\* the checksum of send_packet: the fold over data.iter().skip(1)
Checksum(data) == WrapSum(0, Tail(data))

\* data after write!(&mut data, "#{:02x}", checksum)
Frame(data) == data \o <<HASH>> \o HexFmt(Checksum(data), 2)

\* ------------------------------------------------------------ receive buffer
Ok(v) == [tag |-> "ok", val |-> v, code |-> 0]
Err(t) == [tag |-> t, val |-> <<>>, code |-> 0]
ErrCode(t, c) == [tag |-> t, val |-> <<>>, code |-> c]
\* an index or slice out of range: the thread panics
Panic == Err("panic")

\* a loop condition that looks one byte too far right, data[len - 2]
IncompleteOffByOne(b) == IF Len(b) < 3 THEN TRUE ELSE b[Len(b) - 1] # HASH

\* a loop condition that only waits for three bytes
IncompleteNoHash(b) == Len(b) < 3

\* the loop condition of from_bulk_receive: the frame is not complete yet
Incomplete(b) == IF Len(b) < 3 THEN TRUE ELSE b[Len(b) - 2] # HASH

\* position(|c| c == b'$'): the 0-based index of the first `$`, -1 for None
FirstDollar(b) ==
  LET S == {i \in 1..Len(b) : b[i] = DOLLAR}
  IN  IF S = {} THEN -1 ELSE (CHOOSE i \in S : \A j \in S : i <= j) - 1

\* rposition(|c| c == b'#'): the 0-based index of the last `#`, -1 for None
LastHash(b) ==
  LET S == {i \in 1..Len(b) : b[i] = HASH}
  IN  IF S = {} THEN -1 ELSE (CHOOSE i \in S : \A j \in S : i >= j) - 1

\* get_payload: &self[start + 1..end], which panics when start + 1 > end
GetPayload(b) ==
  LET start == FirstDollar(b)
      end == LastHash(b)
  IN  IF start >= 0 /\ end >= 0
      THEN IF start + 1 > end THEN Panic
           ELSE Ok(SubSeq(b, start + 2, end))
      ELSE Err("Malformed")

\* std::str::from_utf8 on the two bytes after `E`: two ASCII bytes or one
\* two-byte sequence
Utf8Pair(s) ==
  \/ s[1] < 128 /\ s[2] < 128
  \/ s[1] >= 194 /\ s[1] <= 223 /\ s[2] >= 128 /\ s[2] <= 191

\* a parse in radix 10
ParseDecU8(s) ==
  IF s[1] >= 48 /\ s[1] <= 57 /\ s[2] >= 48 /\ s[2] <= 57
  THEN 10 * (s[1] - 48) + (s[2] - 48)
  ELSE -1

\* u8::from_str_radix(s, 16) of a two-character string: a leading `+` is a
\* sign, every other character must be a hex digit; -1 for Err
ParseHexU8(s) ==
  IF s[1] = PLUS
  THEN HexVal(s[2])
  ELSE IF HexVal(s[1]) >= 0 /\ HexVal(s[2]) >= 0
       THEN 16 * HexVal(s[1]) + HexVal(s[2])
       ELSE -1

\* the `E` branch of check_cmd_result: &payload[1..3] panics on a payload
\* shorter than three bytes
ErrorReply(payload) ==
  IF Len(payload) < 3 THEN Panic
  ELSE LET s == SubSeq(payload, 2, 3)
       IN  IF ~Utf8Pair(s) THEN Err("NotUtf8")
           ELSE IF ParseHexU8(s) < 0 THEN Err("DecodeError")
           ELSE ErrCode("CommandFailed", ParseHexU8(s))

\* check_cmd_result
CheckCmdResult(b) ==
  LET p == GetPayload(b)
  IN  IF p.tag # "ok" THEN p
      ELSE IF p.val = <<>> THEN Err("EmptyResponse")
      ELSE IF StartsWith(p.val, <<CH_O, CH_K>>) THEN Ok(<<>>)
      ELSE IF p.val[1] = CH_E THEN ErrorReply(p.val)
      ELSE Ok(<<>>)

\* the filter_map closure of read_mem_int on one byte: what it yields and
\* its `escaped` flag afterwards
UnescapeByte(escaped, ch) ==
  IF escaped THEN [out |-> <<XorEsc(ch)>>, escaped |-> FALSE]
  ELSE IF ch = RBRACE THEN [out |-> <<>>, escaped |-> TRUE]
  ELSE [out |-> <<ch>>, escaped |-> FALSE]

RECURSIVE UnescapeFold(_, _)
\* the closure run over the bytes in order (half by half): all it yields and
\* the flag at the end
UnescapeFold(escaped, bytes) ==
  IF bytes = <<>> THEN [out |-> <<>>, escaped |-> escaped]
  ELSE IF Len(bytes) = 1 THEN UnescapeByte(escaped, bytes[1])
  ELSE LET h == Len(bytes) \div 2
           l == UnescapeFold(escaped, SubSeq(bytes, 1, h))
           r == IF l.escaped
                THEN UnescapeFold(TRUE, SubSeq(bytes, h + 1, Len(bytes)))
                ELSE UnescapeFold(FALSE, SubSeq(bytes, h + 1, Len(bytes)))
       IN  [out |-> l.out \o r.out, escaped |-> r.escaped]

\* the bytes the filter_map of read_mem_int yields
UnescapeFrom(escaped, bytes) == UnescapeFold(escaped, bytes).out

Unescape(bytes) == UnescapeFrom(FALSE, bytes)

\* strip_prefix(b"OK:"): the rest, or the error of ok_or
StripOk(payload) ==
  IF StartsWith(payload, <<CH_O, CH_K, COLON>>)
  THEN Ok(SubSeq(payload, 4, Len(payload)))
  ELSE Err("OkMissing")

\* the zip of the decoded bytes with data.iter_mut(): the slice afterwards
ZipInto(decoded, data) ==
  [i \in 1..Len(data) |-> IF i <= Len(decoded) THEN decoded[i] ELSE data[i]]

\* read_mem_int after send_packet returned `response`: the result and the
\* caller's slice
ReadMemDecode(response, data) ==
  LET chk == CheckCmdResult(response)
      p == GetPayload(response)
      rest == StripOk(p.val)
      decoded == Unescape(rest.val)
      byte_cnt == Min(Len(decoded), Len(data))
  IN  IF chk.tag # "ok" THEN [res |-> chk, data |-> data]
      ELSE IF rest.tag # "ok" THEN [res |-> rest, data |-> data]
      ELSE [res |-> IF byte_cnt = Len(data) THEN Ok(<<>>) ELSE Err("ShortRead"),
            data |-> ZipInto(decoded, data)]

\* ------------------------------------------------------------ bounds
\* bulk reads the mock device answers within one from_bulk_receive
MaxReads == 3
\* bytes of a data slice in the escape specification
MaxData == 4
\* bytes of a reply payload in the response-buffer specification
MaxPayload == 3

\* ------------------------------------------------------------ state
VARIABLES
  pc,       \* where the driver is: idle, write, recv, ack, done (and the
            \* stages of the function specifications)
  op,       \* the operation in progress: name, cmd, addr, data
  sendbuf,  \* the Vec handed to send_packet
  frame,    \* that Vec after the checksum was appended
  tries,    \* the loop index _retries of send_packet
  written,  \* the frames write_bulk has sent in this call, in order
  acks,     \* the first byte of every reply frame received in this call
  buf,      \* the bytes of the ReceiveBuffer, data[0..len]
  marks,    \* len after each read_bulk of the current from_bulk_receive
  result,   \* what the operation returned
  out,      \* the caller's data slice
  max_packet_size,  \* the field of that name of IcdiUsbInterface
  call,     \* the operation of the layers above send_packet in progress
  memory,   \* what the mock device has stored
  log       \* the operations of the probe that have returned, in order

vars == <<pc, op, sendbuf, frame, tries, written, acks, buf, marks, result, out,
          max_packet_size, call, memory, log>>

\* the variables send_packet and the response buffer leave alone
upper == <<max_packet_size, call, memory, log>>

None == Err("none")

\* max_packet_size as new_from_selector sets it, 0x1828
DEFAULT_PACKET_SIZE == 6184

\* no operation of the upper layers is in progress
NoCall == [name |-> "none"]

\* a device that has stored nothing
EmptyStore == <<>>

\* the upper layers before their first operation
UpperInit ==
  /\ max_packet_size = DEFAULT_PACKET_SIZE
  /\ call = NoCall
  /\ memory = EmptyStore
  /\ log = <<>>

\* ------------------------------------------------------------ the mock device
Filler(n) == [i \in 1..n |-> 0]

\* what one read_bulk may deliver
DeviceChunks ==
  { <<>>,
    <<PLUS>>,
    <<MINUS>>,
    <<DOLLAR, CH_O, CH_K, HASH, 57, 97>>,
    <<DOLLAR, CH_E, 48, 53, HASH, 97, 53>>,
    <<DOLLAR, CH_O, CH_K, COLON, 1, RBRACE, 3, HASH, 48, 48>>,
    <<DOLLAR, 1, 2, HASH, 48, 48>>,
    <<HASH, DOLLAR, 122>>,
    <<HASH, 57, 97>>,
    Filler(BUF_SIZE - 3),
    Filler(BUF_SIZE) }

\* the calls of the driver the model makes
RunCall == [name |-> "run", cmd |-> <<CH_c>>, addr |-> U32(0, 0), data |-> <<>>]
WriteMemCall(a, d) == [name |-> "write_mem_int", cmd |-> <<>>, addr |-> a, data |-> d]
ReadMemCall(a, n) == [name |-> "read_mem_int", cmd |-> <<>>, addr |-> a, data |-> Filler(n)]

Calls ==
  { RunCall,
    WriteMemCall(U32(0, 4096), <<HASH, 1>>),
    ReadMemCall(U32(8192, 0), 2),
    ReadMemCall(U32(8192, 0), 3) }

\* the Vec each operation builds for send_packet
BufOf(c) ==
  CASE c.name = "run" -> SendCmdBuf(c.cmd)
    [] c.name = "write_mem_int" -> WriteMemBuf(c.addr, c.data)
    [] c.name = "read_mem_int" -> ReadMemBuf(c.addr, Len(c.data))

\* what the operation makes of the ReceiveBuffer send_packet returned
Finish(c, response) ==
  IF c.name = "read_mem_int" THEN ReadMemDecode(response, c.data)
  ELSE [res |-> CheckCmdResult(response), data |-> c.data]

\* ------------------------------------------------------------ send_packet
Init ==
  /\ pc = "idle"
  /\ op = RunCall
  /\ sendbuf = <<>>
  /\ frame = <<>>
  /\ tries = 0
  /\ written = <<>>
  /\ acks = <<>>
  /\ buf = <<>>
  /\ marks = <<>>
  /\ result = None
  /\ out = <<>>
  /\ UpperInit

\* an operation builds its buffer and enters send_packet, which appends the
\* checksum
Call(c) ==
  /\ pc = "idle"
  /\ op' = c
  /\ sendbuf' = BufOf(c)
  /\ frame' = Frame(BufOf(c))
  /\ tries' = 0
  /\ written' = <<>>
  /\ acks' = <<>>
  /\ buf' = <<>>
  /\ marks' = <<>>
  /\ result' = None
  /\ out' = c.data
  /\ pc' = "write"
  /\ UNCHANGED upper

\* write_bulk sent the whole frame; from_bulk_receive starts on a new buffer
WriteOk ==
  /\ pc = "write"
  /\ written' = Append(written, frame)
  /\ buf' = <<>>
  /\ marks' = <<>>
  /\ pc' = "recv"
  /\ UNCHANGED <<op, sendbuf, frame, tries, acks, result, out>>
  /\ UNCHANGED upper

\* write_bulk failed
WriteErr ==
  /\ pc = "write"
  /\ result' = Err("UsbWrite")
  /\ pc' = "done"
  /\ UNCHANGED <<op, sendbuf, frame, tries, written, acks, buf, marks, out>>
  /\ UNCHANGED upper

\* write_bulk sent fewer bytes than the frame has
WriteShort ==
  /\ pc = "write"
  /\ result' = Err("ShortWrite")
  /\ pc' = "done"
  /\ UNCHANGED <<op, sendbuf, frame, tries, written, acks, buf, marks, out>>
  /\ UNCHANGED upper

\* one read_bulk into &mut buf.data[len..]: at most the rest of the buffer
RecvRead(chunk) ==
  /\ pc = "recv"
  /\ Incomplete(buf)
  /\ Len(buf) < BUF_SIZE
  /\ Len(marks) < MaxReads
  /\ Len(chunk) <= BUF_SIZE - Len(buf)
  /\ buf' = buf \o chunk
  /\ marks' = Append(marks, Len(buf) + Len(chunk))
  /\ UNCHANGED <<pc, op, sendbuf, frame, tries, written, acks, result, out>>
  /\ UNCHANGED upper

\* the slice left is empty: bail!("Buffer couldn't hold the full response.")
RecvFull ==
  /\ pc = "recv"
  /\ Incomplete(buf)
  /\ Len(buf) >= BUF_SIZE
  /\ result' = Err("BufferFull")
  /\ pc' = "done"
  /\ UNCHANGED <<op, sendbuf, frame, tries, written, acks, buf, marks, out>>
  /\ UNCHANGED upper

\* read_bulk failed (a timeout among others)
RecvErr ==
  /\ pc = "recv"
  /\ Incomplete(buf)
  /\ Len(buf) < BUF_SIZE
  /\ result' = Err("UsbRead")
  /\ pc' = "done"
  /\ UNCHANGED <<op, sendbuf, frame, tries, written, acks, buf, marks, out>>
  /\ UNCHANGED upper

\* a from_bulk_receive that returns what it has after the first byte
RecvReturnEarly ==
  /\ pc = "recv"
  /\ Len(buf) >= 1
  /\ pc' = "ack"
  /\ UNCHANGED <<op, sendbuf, frame, tries, written, acks, buf, marks, result, out>>
  /\ UNCHANGED upper

\* the loop of from_bulk_receive ends: Ok(buf)
RecvReturn ==
  /\ pc = "recv"
  /\ ~Incomplete(buf)
  /\ pc' = "ack"
  /\ UNCHANGED <<op, sendbuf, frame, tries, written, acks, buf, marks, result, out>>
  /\ UNCHANGED upper

\* the end of one iteration of `for _retries in 0..3` that did not return
NextTry ==
  /\ tries' = tries + 1
  /\ IF tries + 1 < MAX_TRIES
     THEN pc' = "write" /\ result' = result
     ELSE pc' = "done" /\ result' = Err("TooManyRetries")

\* match buf[0] { b'-' => continue
AckMinus ==
  /\ pc = "ack"
  /\ buf[1] = MINUS
  /\ acks' = Append(acks, buf[1])
  /\ NextTry
  /\ UNCHANGED <<op, sendbuf, frame, written, buf, marks, out>>
  /\ UNCHANGED upper

\* b'+' => return Ok(buf): the operation goes on with the reply
AckPlus ==
  /\ pc = "ack"
  /\ buf[1] = PLUS
  /\ acks' = Append(acks, buf[1])
  /\ result' = Finish(op, buf).res
  /\ out' = Finish(op, buf).data
  /\ pc' = "done"
  /\ UNCHANGED <<op, sendbuf, frame, tries, written, buf, marks>>
  /\ UNCHANGED upper

\* _ => log::trace!(..): the match ends and the loop goes on
AckOther ==
  /\ pc = "ack"
  /\ buf[1] \notin {PLUS, MINUS}
  /\ acks' = Append(acks, buf[1])
  /\ NextTry
  /\ UNCHANGED <<op, sendbuf, frame, written, buf, marks, out>>
  /\ UNCHANGED upper

\* the operation has returned to its caller
Return ==
  /\ pc = "done"
  /\ pc' = "idle"
  /\ UNCHANGED <<op, sendbuf, frame, tries, written, acks, buf, marks, result, out>>
  /\ UNCHANGED upper

Next ==
  \/ \E c \in Calls : Call(c)
  \/ WriteOk
  \/ WriteErr
  \/ WriteShort
  \/ \E chunk \in DeviceChunks : RecvRead(chunk)
  \/ RecvFull
  \/ RecvErr
  \/ RecvReturn
  \/ AckMinus
  \/ AckPlus
  \/ AckOther
  \/ Return

Spec == Init /\ [][Next]_vars

\* ------------------------------------------------------------ write_mem_int and back
\* the byte strings over S of at most n bytes
BSeq(S, n) == UNION {[1..k -> S] : k \in 0..n}

\* data bytes: the four escaped ones, two of the bytes they escape to, and `A`
EscBytes == {HASH, DOLLAR, RBRACE, STAR, 3, 93, 65}

\* 0x1000 and 0xdeadbeef
EscAddrs == {U32(0, 4096), U32(57005, 48879)}

\* the bytes of the send buffer before the escaped data: `$Xaaaaaaaa,llllllll:`
HeaderLen == Len(WriteMemBuf(U32(0, 0), <<>>))

InitEsc ==
  /\ pc = "build"
  /\ op \in {WriteMemCall(a, d) : a \in EscAddrs, d \in BSeq(EscBytes, MaxData)}
  /\ sendbuf = <<>>
  /\ frame = <<>>
  /\ tries = 0
  /\ written = <<>>
  /\ acks = <<>>
  /\ buf = <<>>
  /\ marks = <<>>
  /\ result = None
  /\ out = <<>>
  /\ UpperInit

\* write_mem_int builds the X command
EscBuild ==
  /\ pc = "build"
  /\ sendbuf' = WriteMemBuf(op.addr, op.data)
  /\ pc' = "built"
  /\ UNCHANGED <<op, frame, tries, written, acks, buf, marks, result, out>>
  /\ UNCHANGED upper

\* send_packet appends the checksum and write_bulk sends the frame
EscSend ==
  /\ pc = "built"
  /\ frame' = Frame(sendbuf)
  /\ written' = <<Frame(sendbuf)>>
  /\ pc' = "sent"
  /\ UNCHANGED <<op, sendbuf, tries, acks, buf, marks, result, out>>
  /\ UNCHANGED upper

\* the unescape of read_mem_int applied to the escaped bytes of the command
EscDecode ==
  /\ pc = "sent"
  /\ out' = Unescape(SubSeq(sendbuf, HeaderLen + 1, Len(sendbuf)))
  /\ pc' = "decoded"
  /\ UNCHANGED <<op, sendbuf, frame, tries, written, acks, buf, marks, result>>
  /\ UNCHANGED upper

NextEsc == EscBuild \/ EscSend \/ EscDecode

SpecEscape == InitEsc /\ [][NextEsc]_vars

\* ------------------------------------------------------------ get_payload, check_cmd_result
\* the characters 0-9, a-f, A-F
HexChars == (48..57) \cup (97..102) \cup (65..70)

\* payload bytes: E O K 0 f + z : $ # and two bytes above 127
PayloadBytes == {CH_E, CH_O, CH_K, 48, 102, PLUS, 122, COLON, DOLLAR, HASH, 128, 195}

\* reply payloads: short strings, and `E` with every pair of hex digits
ReplyPayloads ==
  BSeq(PayloadBytes, MaxPayload)
    \cup {<<CH_E, h1, h2>> : h1 \in HexChars, h2 \in HexChars}

\* what precedes the payload, and the two bytes after the `#`
ReplyHeads == {<<>>, <<PLUS, DOLLAR>>}
ReplyTails == {<<57, 97>>, <<DOLLAR, 122>>}

\* buffers from_bulk_receive returns: any bytes, `#`, two bytes
CompleteBuffers ==
  {h \o p \o <<HASH>> \o t : h \in ReplyHeads, p \in ReplyPayloads, t \in ReplyTails}

InitRecv ==
  /\ pc = "received"
  /\ buf \in CompleteBuffers
  /\ op = RunCall
  /\ sendbuf = <<>>
  /\ frame = <<>>
  /\ tries = 0
  /\ written = <<>>
  /\ acks = <<>>
  /\ marks = <<>>
  /\ result = None
  /\ out = <<>>
  /\ UpperInit

\* buf.get_payload()
RecvGetPayload ==
  /\ pc = "received"
  /\ result' = GetPayload(buf)
  /\ pc' = "payload"
  /\ UNCHANGED <<op, sendbuf, frame, tries, written, acks, buf, marks, out>>
  /\ UNCHANGED upper

\* buf.check_cmd_result()
RecvCheck ==
  /\ pc = "payload"
  /\ result' = CheckCmdResult(buf)
  /\ pc' = "checked"
  /\ UNCHANGED <<op, sendbuf, frame, tries, written, acks, buf, marks, out>>
  /\ UNCHANGED upper

NextRecv == RecvGetPayload \/ RecvCheck

SpecRecv == InitRecv /\ [][NextRecv]_vars

\* ------------------------------------------------------------ the chunk size
\* a maximum packet size of 128 bytes more
ICDI_MAX_PACKET_SIZE_Larger == 2048 + 128

\* the maximum packet size the chunk size is computed from
ICDI_MAX_PACKET_SIZE == 2048

\* half of the room, without the rounding down to a multiple of four
ChunkSizeUnrounded(max) == (max - 64) \div 2

\* (((max - 64) / 4) * 4) / 2 in u32 arithmetic
ChunkSize(max) == (((max - 64) \div 4) * 4) \div 2

\* the bytes of one binary memory command at most, 992
ICDI_MAX_RW_PACKET == ChunkSize(ICDI_MAX_PACKET_SIZE)

\* the largest maximum packet size of the chunk-size specification, 0x1828
MaxPacket == 6184

\* every maximum packet size from 68 on
InitChunkSize ==
  /\ pc = "max"
  /\ op \in {[name |-> "chunk_size", max |-> m] : m \in 68..MaxPacket}
  /\ sendbuf = <<>>
  /\ frame = <<>>
  /\ tries = 0
  /\ written = <<>>
  /\ acks = <<>>
  /\ buf = <<>>
  /\ marks = <<>>
  /\ result = None
  /\ out = <<>>
  /\ UpperInit

\* the constant expression is evaluated
ComputeChunkSize ==
  /\ pc = "max"
  /\ result' = Ok(ChunkSize(op.max))
  /\ pc' = "chunk_size"
  /\ UNCHANGED <<op, sendbuf, frame, tries, written, acks, buf, marks, out>>
  /\ UNCHANGED upper

NextChunkSize == ComputeChunkSize

SpecChunkSize == InitChunkSize /\ [][NextChunkSize]_vars

\* ------------------------------------------------------------ read_mem, write_mem
\* a + n does not fit a u32
Overflows(a, n) == a.hi + ((a.lo + n) \div 65536) >= 65536

\* a cursor that does not move
CursorStays(a, n) == a

\* a + n in u32 arithmetic that wraps
WrappingAdd(a, n) ==
  U32((a.hi + ((a.lo + n) \div 65536)) % 65536, (a.lo + n) % 65536)

\* the chunk that chunks(ICDI_MAX_RW_PACKET) yields after pos bytes
ChunkAt(data, pos) ==
  SubSeq(data, pos + 1, Min(pos + ICDI_MAX_RW_PACKET, Len(data)))

\* the slice after the chunk at pos was overwritten
WithChunk(data, pos, chunk) ==
  [i \in 1..Len(data) |->
     IF i > pos /\ i <= pos + Len(chunk) THEN chunk[i - pos] ELSE data[i]]

\* read_mem or write_mem on entry: the cursor at addr, no chunk taken yet
MemCall(name, a, d) ==
  [name |-> name, addr |-> a, data |-> d, cur |-> a, pos |-> 0]

\* the read_mem_int or write_mem_int of the chunk at the cursor
ChunkCall(c, data) ==
  [name |-> IF c.name = "read_mem" THEN "read_mem_int" ELSE "write_mem_int",
   cmd |-> <<>>,
   addr |-> c.cur,
   data |-> ChunkAt(data, c.pos)]

\* ------------------------------------------------------------ the mock memory device
\* the reply frame of the device for a payload, after its `+`
DeviceReply(payload) == <<PLUS>> \o Frame(<<DOLLAR>> \o payload)

\* four hex digits as the device reads them
DevHex4(d) ==
  ((HexVal(d[1]) * 16 + HexVal(d[2])) * 16 + HexVal(d[3])) * 16 + HexVal(d[4])

\* the address, the length and the data of a received `x` or `X` command
DevAddr(cmd) == U32(DevHex4(SubSeq(cmd, 3, 6)), DevHex4(SubSeq(cmd, 7, 10)))
DevLen(cmd) == DevHex4(SubSeq(cmd, 12, 15)) * 65536 + DevHex4(SubSeq(cmd, 16, 19))
DevData(cmd) == Unescape(SubSeq(cmd, 21, Len(cmd)))

\* how far address x lies above address a
Offset(a, x) == ((x.hi - a.hi + 65536) % 65536) * 65536 + x.lo - a.lo

\* the store after the bytes were written at address a and above
StoreBytes(mem, a, bytes) ==
  LET new == {WrappingAdd(a, i - 1) : i \in 1..Len(bytes)}
  IN  [x \in (DOMAIN mem) \cup new |->
         IF x \in new THEN bytes[Offset(a, x) + 1] ELSE mem[x]]

\* the n bytes stored at address a and above, 0 where nothing was written
LoadBytes(mem, a, n) ==
  [i \in 1..n |->
     LET x == WrappingAdd(a, i - 1)
     IN  IF x \in DOMAIN mem THEN mem[x] ELSE 0]

\* the store after the device received the command
MockStore(mem, cmd) ==
  IF cmd[2] = CH_X THEN StoreBytes(mem, DevAddr(cmd), DevData(cmd)) ELSE mem

\* the reply of the device to the command: `OK` to an `X`, the stored bytes,
\* escaped, after the prefix to an `x`
MockReply(mem, cmd, prefix) ==
  IF cmd[2] = CH_X THEN DeviceReply(<<CH_O, CH_K>>)
  ELSE DeviceReply(prefix \o Escape(LoadBytes(mem, DevAddr(cmd), DevLen(cmd))))

\* the two forms of the reply to `x`: with `OK:` and without
ReadPrefixes == {<<CH_O, CH_K, COLON>>, <<>>}

\* ------------------------------------------------------------ write_mem, then read_mem
\* the largest transfer, in whole chunks
MaxChunks == 2

\* transfer lengths: none, one byte, 32 bytes, and a whole number of chunks
\* with and without one byte more
MemLens ==
  {0, 1, 32} \cup {k * ICDI_MAX_RW_PACKET + d : k \in 1..MaxChunks, d \in {0, 1}}

\* data bytes in rotation: the four escaped ones, what two of them escape to,
\* and two plain ones
PatternBytes == <<HASH, 1, DOLLAR, 65, RBRACE, 93, STAR, 3>>
Pattern(n, k) == [i \in 1..n |-> PatternBytes[((i + k) % Len(PatternBytes)) + 1]]

\* the address n bytes below 2^32 (the last address for no byte)
TopMinus(n) == IF n = 0 THEN U32(65535, 65535) ELSE U32(65535, 65536 - n)

\* 0x20000000, an address whose low half carries within one chunk, and the
\* address of a region that ends at the top of the address space
MemAddrs(n) == {U32(8192, 0), U32(0, 65000), TopMinus(n)}

\* the transfers: every region lies inside the 32-bit address space
MemInputs ==
  {<<a, Pattern(n, k)>> : a \in UNION {MemAddrs(m) : m \in MemLens},
                          n \in MemLens, k \in {0, 3}}

InitMem ==
  /\ pc = "loop"
  /\ call \in {MemCall("write_mem", i[1], i[2]) :
                 i \in {j \in MemInputs : j[1] \in MemAddrs(Len(j[2]))}}
  /\ out = call.data
  /\ op = RunCall
  /\ sendbuf = <<>>
  /\ frame = <<>>
  /\ tries = 0
  /\ written = <<>>
  /\ acks = <<>>
  /\ buf = <<>>
  /\ marks = <<>>
  /\ result = None
  /\ max_packet_size = DEFAULT_PACKET_SIZE
  /\ memory = EmptyStore
  /\ log = <<>>

\* read_mem_int or write_mem_int of the next chunk: the device receives the
\* command and its reply comes back
ChunkIo(prefix) ==
  /\ pc = "loop"
  /\ call.pos < Len(out)
  /\ LET c == ChunkCall(call, out)
         cmd == BufOf(c)
         mem == MockStore(memory, cmd)
         reply == MockReply(mem, cmd, prefix)
         fin == Finish(c, reply)
     IN  /\ op' = c
         /\ sendbuf' = cmd
         /\ frame' = Frame(cmd)
         /\ written' = Append(written, Frame(cmd))
         /\ memory' = mem
         /\ buf' = reply
         /\ acks' = Append(acks, reply[1])
         /\ result' = fin.res
         /\ out' = WithChunk(out, call.pos, fin.data)
         /\ pc' = IF fin.res.tag = "ok" THEN "add" ELSE "done"
  /\ UNCHANGED <<tries, marks, max_packet_size, call, log>>

\* the write_bulk of the chunk's command fails
ChunkUsbWrite ==
  /\ pc = "loop"
  /\ call.pos < Len(out)
  /\ op' = ChunkCall(call, out)
  /\ sendbuf' = BufOf(ChunkCall(call, out))
  /\ frame' = Frame(BufOf(ChunkCall(call, out)))
  /\ result' = Err("UsbWrite")
  /\ pc' = "done"
  /\ UNCHANGED <<tries, written, acks, buf, marks, out>>
  /\ UNCHANGED upper

\* the command reaches the device and the read_bulk of its reply fails
ChunkUsbRead ==
  /\ pc = "loop"
  /\ call.pos < Len(out)
  /\ op' = ChunkCall(call, out)
  /\ sendbuf' = BufOf(ChunkCall(call, out))
  /\ frame' = Frame(BufOf(ChunkCall(call, out)))
  /\ written' = Append(written, Frame(BufOf(ChunkCall(call, out))))
  /\ memory' = MockStore(memory, BufOf(ChunkCall(call, out)))
  /\ result' = Err("UsbRead")
  /\ pc' = "done"
  /\ UNCHANGED <<tries, acks, buf, marks, out, max_packet_size, call, log>>

\* addr += chunk.len() as u32, the sum fits
ChunkAdd ==
  /\ pc = "add"
  /\ ~Overflows(call.cur, Len(op.data))
  /\ call' = [call EXCEPT !.cur = WrappingAdd(call.cur, Len(op.data)),
                          !.pos = call.pos + Len(op.data)]
  /\ pc' = "loop"
  /\ UNCHANGED <<op, sendbuf, frame, tries, written, acks, buf, marks, result, out>>
  /\ UNCHANGED <<max_packet_size, memory, log>>

\* addr += chunk.len() as u32 overflows in a build without overflow checks
ChunkAddWraps ==
  /\ pc = "add"
  /\ Overflows(call.cur, Len(op.data))
  /\ call' = [call EXCEPT !.cur = WrappingAdd(call.cur, Len(op.data)),
                          !.pos = call.pos + Len(op.data)]
  /\ pc' = "loop"
  /\ UNCHANGED <<op, sendbuf, frame, tries, written, acks, buf, marks, result, out>>
  /\ UNCHANGED <<max_packet_size, memory, log>>

\* addr += chunk.len() as u32 overflows in a build with overflow checks
ChunkAddPanics ==
  /\ pc = "add"
  /\ Overflows(call.cur, Len(op.data))
  /\ result' = Panic
  /\ pc' = "done"
  /\ UNCHANGED <<op, sendbuf, frame, tries, written, acks, buf, marks, out>>
  /\ UNCHANGED upper

\* the chunks are used up: Ok(())
LoopEnd ==
  /\ pc = "loop"
  /\ call.pos = Len(out)
  /\ result' = Ok(<<>>)
  /\ pc' = "done"
  /\ UNCHANGED <<op, sendbuf, frame, tries, written, acks, buf, marks, out>>
  /\ UNCHANGED upper

\* write_mem has returned Ok and the caller reads the same region back
ReadBack ==
  /\ pc = "done"
  /\ call.name = "write_mem"
  /\ result.tag = "ok"
  /\ log' = Append(log, [name |-> call.name, addr |-> call.addr,
                         data |-> call.data, res |-> result])
  /\ call' = MemCall("read_mem", call.addr, Filler(Len(call.data)))
  /\ out' = Filler(Len(call.data))
  /\ written' = <<>>
  /\ acks' = <<>>
  /\ buf' = <<>>
  /\ result' = None
  /\ pc' = "loop"
  /\ UNCHANGED <<op, sendbuf, frame, tries, marks, max_packet_size, memory>>

NextMem ==
  \/ \E prefix \in ReadPrefixes : ChunkIo(prefix)
  \/ ChunkUsbWrite
  \/ ChunkUsbRead
  \/ ChunkAdd
  \/ ChunkAddWraps
  \/ ChunkAddPanics
  \/ LoopEnd
  \/ ReadBack

SpecMem == InitMem /\ [][NextMem]_vars

\* ------------------------------------------------------------ read_mem_int and the length of the reply
\* raw payload bytes of a reply to `x`: a plain byte, `}` and `]`
RawBytes == {1, RBRACE, 93}

\* replies to `x`: up to one raw byte more than the longest request, with
\* and without `OK:`
ReadReplies ==
  {DeviceReply(prefix \o raw) :
     prefix \in ReadPrefixes, raw \in BSeq(RawBytes, MaxData + 1)}

InitReadInt ==
  /\ pc = "request"
  /\ op \in {ReadMemCall(U32(8192, 0), n) : n \in 1..MaxData}
  /\ sendbuf = <<>>
  /\ frame = <<>>
  /\ tries = 0
  /\ written = <<>>
  /\ acks = <<>>
  /\ buf = <<>>
  /\ marks = <<>>
  /\ result = None
  /\ out = op.data
  /\ UpperInit

\* read_mem_int: the `x` command goes out, send_packet returns the reply and
\* the reply is decoded into the slice
ReadMemInt(reply) ==
  /\ pc = "request"
  /\ sendbuf' = ReadMemBuf(op.addr, Len(op.data))
  /\ frame' = Frame(ReadMemBuf(op.addr, Len(op.data)))
  /\ written' = <<Frame(ReadMemBuf(op.addr, Len(op.data)))>>
  /\ acks' = <<reply[1]>>
  /\ buf' = reply
  /\ result' = ReadMemDecode(reply, op.data).res
  /\ out' = ReadMemDecode(reply, op.data).data
  /\ pc' = "read"
  /\ UNCHANGED <<op, tries, marks>>
  /\ UNCHANGED upper

NextReadInt == \E reply \in ReadReplies : ReadMemInt(reply)

SpecReadInt == InitReadInt /\ [][NextReadInt]_vars

\* ------------------------------------------------------------ send_packet as its callers see it
\* the frame was written `sent` times, and then the call returned the reply
\* (err is "ok") or the error
Outcome(sent, err, reply) == [sent |-> sent, err |-> err, reply |-> reply]

\* what a send_packet can come to with a device that answers with one of
\* the replies: the reply at the first, second or third attempt, a failed
\* write_bulk, a failed read_bulk, or three attempts without a `+`
Outcomes(replies) ==
  {Outcome(k, "ok", r) : k \in 1..MAX_TRIES, r \in replies}
    \cup {Outcome(0, "UsbWrite", <<>>),
          Outcome(1, "UsbRead", <<>>),
          Outcome(MAX_TRIES, "TooManyRetries", <<>>)}

\* the frames the call has written
Sent(cmd, o) == [i \in 1..o.sent |-> Frame(cmd)]

\* ------------------------------------------------------------ read_reg, write_reg
\* the bytes with the most significant first
ToBeBytes(v) == <<v.hi \div 256, v.hi % 256, v.lo \div 256, v.lo % 256>>

\* val.to_le_bytes()
ToLeBytes(v) == <<v.lo % 256, v.lo \div 256, v.hi % 256, v.hi \div 256>>

\* a decoding with the most significant byte first
FromBeBytes(y) == U32(y[1] * 256 + y[2], y[3] * 256 + y[4])

\* u32::from_le_bytes(y)
FromLeBytes(y) == U32(y[4] * 256 + y[3], y[2] * 256 + y[1])

\* write_hex: two lower-case hex digits for every byte
WriteHex(bytes) ==
  [i \in 1..(2 * Len(bytes)) |->
     IF i % 2 = 1 THEN HexDigit(bytes[(i + 1) \div 2] \div 16)
     ELSE HexDigit(bytes[i \div 2] % 16)]

\* <[u8; 4]>::from_hex(x): exactly eight hex digits of either case give the
\* four bytes, anything else is the conversion error
FromHex4(x) ==
  IF Len(x) = 8 /\ \A i \in 1..8 : HexVal(x[i]) >= 0
  THEN Ok([i \in 1..4 |-> 16 * HexVal(x[2 * i - 1]) + HexVal(x[2 * i])])
  ELSE Err("HexConversion")

\* the command of read_reg, "p{:x}"
ReadRegBuf(regsel) == SendCmdBuf(<<CH_p>> \o HexDigits(regsel))

\* the command of write_reg, "P{:x}=" and the hex of the value
WriteRegBuf(regsel, val) ==
  SendCmdBuf(<<CH_P>> \o HexDigits(regsel) \o <<EQUALS>> \o WriteHex(ToLeBytes(val)))

\* read_reg after send_cmd returned `response`
ReadRegDecode(response) ==
  LET chk == CheckCmdResult(response)
      y == FromHex4(GetPayload(response).val)
  IN  IF chk.tag # "ok" THEN chk
      ELSE IF y.tag # "ok" THEN y
      ELSE Ok(FromLeBytes(y.val))

\* write_reg after send_cmd: the `?` passes an error of send_packet on, and
\* the reply is not looked at
WriteRegResult(o) == IF o.err = "ok" THEN Ok(<<>>) ELSE Err(o.err)

\* ------------------------------------------------------------ the mock register device
\* where the `=` of a `P` command is
EqualsAt(cmd) == CHOOSE i \in 1..Len(cmd) : cmd[i] = EQUALS

\* the digits the device keeps for the register of a `P` command
RegStore(mem, cmd) ==
  LET r == SubSeq(cmd, 3, EqualsAt(cmd) - 1)
      d == SubSeq(cmd, EqualsAt(cmd) + 1, Len(cmd))
  IN  [x \in (DOMAIN mem) \cup {r} |-> IF x = r THEN d ELSE mem[x]]

\* the digits the device holds for the register of a `p` command
RegLoad(mem, cmd) ==
  LET r == SubSeq(cmd, 3, Len(cmd))
  IN  IF r \in DOMAIN mem THEN mem[r] ELSE <<48, 48, 48, 48, 48, 48, 48, 48>>

\* digits in upper case
UpperCase(d) == [i \in 1..Len(d) |-> IF d[i] >= 97 THEN d[i] - 32 ELSE d[i]]

\* the replies of the device to `P`: OK, an error, nothing
WriteRegReplies ==
  {DeviceReply(<<CH_O, CH_K>>), DeviceReply(<<CH_E, 48, 53>>), DeviceReply(<<>>)}

\* the replies of the device to `p`: the digits it holds, the same in upper
\* case, six of them, an error, nothing
ReadRegReplies(mem, cmd) ==
  {DeviceReply(RegLoad(mem, cmd)),
   DeviceReply(UpperCase(RegLoad(mem, cmd))),
   DeviceReply(SubSeq(RegLoad(mem, cmd), 1, 6)),
   DeviceReply(<<CH_E, 48, 53>>),
   DeviceReply(<<>>)}

\* register numbers and the halves of register values
Regs == {0, 15, 16, 25}
RegHalves == {0, 1, 255, 256, 4660, 43981, 57005, 48879, 65535}

RegCall(name, r, v) == [name |-> name, regsel |-> r, val |-> v]

InitReg ==
  /\ pc = "reg"
  /\ op \in {RegCall("write_reg", r, U32(hi, lo)) :
               r \in Regs, hi \in RegHalves, lo \in RegHalves}
  /\ sendbuf = <<>>
  /\ frame = <<>>
  /\ tries = 0
  /\ written = <<>>
  /\ acks = <<>>
  /\ buf = <<>>
  /\ marks = <<>>
  /\ result = None
  /\ out = <<>>
  /\ UpperInit

\* write_reg: the device keeps the value when it answers OK
WriteReg(o) ==
  /\ pc = "reg"
  /\ sendbuf' = WriteRegBuf(op.regsel, op.val)
  /\ frame' = Frame(WriteRegBuf(op.regsel, op.val))
  /\ written' = Sent(WriteRegBuf(op.regsel, op.val), o)
  /\ buf' = o.reply
  /\ memory' = IF o.reply = DeviceReply(<<CH_O, CH_K>>)
               THEN RegStore(memory, WriteRegBuf(op.regsel, op.val))
               ELSE memory
  /\ result' = WriteRegResult(o)
  /\ pc' = "written"
  /\ UNCHANGED <<op, tries, acks, marks, out, max_packet_size, call, log>>

\* read_reg of the same register after write_reg
ReadReg(o) ==
  /\ pc = "written"
  /\ log' = Append(log, [name |-> op.name, regsel |-> op.regsel, val |-> op.val,
                         sent |-> written, reply |-> buf, res |-> result])
  /\ op' = RegCall("read_reg", op.regsel, op.val)
  /\ sendbuf' = ReadRegBuf(op.regsel)
  /\ frame' = Frame(ReadRegBuf(op.regsel))
  /\ written' = Sent(ReadRegBuf(op.regsel), o)
  /\ buf' = o.reply
  /\ result' = IF o.err = "ok" THEN ReadRegDecode(o.reply) ELSE Err(o.err)
  /\ pc' = "reg_read"
  /\ UNCHANGED <<tries, acks, marks, out, max_packet_size, call, memory>>

NextReg ==
  \/ \E o \in Outcomes(WriteRegReplies) : WriteReg(o)
  \/ \E o \in Outcomes(ReadRegReplies(memory, ReadRegBuf(op.regsel))) : ReadReg(o)

SpecReg == InitReg /\ [][NextReg]_vars

\* ------------------------------------------------------------ run, halt, step
\* the command byte of run, halt and step with two of them exchanged
CtlCmdSwapped(name) ==
  IF name = "run" THEN <<CH_s>> ELSE IF name = "halt" THEN <<QUESTION>> ELSE <<CH_c>>

\* the command of run (b"c"), halt (b"?") and step (b"s")
CtlCmd(name) ==
  IF name = "run" THEN <<CH_c>> ELSE IF name = "halt" THEN <<QUESTION>> ELSE <<CH_s>>

\* .context(text): an error is wrapped and keeps its kind and code
Context(r, text) ==
  IF r.tag = "ok" THEN r
  ELSE [tag |-> r.tag, val |-> r.val, code |-> r.code, context |-> text]

\* send_cmd(..)?.check_cmd_result().context(text): the `?` returns an error
\* of send_packet as it is
CtlResult(o, text) ==
  IF o.err = "ok" THEN Context(CheckCmdResult(o.reply), text) ELSE Err(o.err)

\* the first bytes of the replies send_packet has looked at
AcksOf(o) ==
  IF o.err = "ok" THEN [i \in 1..o.sent |-> IF i = o.sent THEN PLUS ELSE MINUS]
  ELSE IF o.err = "TooManyRetries" THEN [i \in 1..MAX_TRIES |-> MINUS]
  ELSE <<>>

\* reply payloads to a control command: up to two bytes, and `E` with two
\* more bytes, every pair of hex digits among them
CtlPayloads ==
  BSeq(PayloadBytes, 2)
    \cup {<<CH_E, b1, b2>> : b1 \in PayloadBytes \cup HexChars, b2 \in PayloadBytes \cup HexChars}
    \cup {<<CH_O, CH_K, b>> : b \in PayloadBytes}

\* the replies of the device to a control command
CtlReplies == {DeviceReply(p) : p \in CtlPayloads}

InitCtl ==
  /\ pc = "ctl"
  /\ op \in {[name |-> n] : n \in {"run", "halt", "step"}}
  /\ sendbuf = <<>>
  /\ frame = <<>>
  /\ tries = 0
  /\ written = <<>>
  /\ acks = <<>>
  /\ buf = <<>>
  /\ marks = <<>>
  /\ result = None
  /\ out = <<>>
  /\ UpperInit

\* a control command: send_cmd and check_cmd_result
Ctl(name, text, o) ==
  /\ pc = "ctl"
  /\ op.name = name
  /\ sendbuf' = SendCmdBuf(CtlCmd(name))
  /\ frame' = Frame(SendCmdBuf(CtlCmd(name)))
  /\ written' = Sent(SendCmdBuf(CtlCmd(name)), o)
  /\ acks' = AcksOf(o)
  /\ buf' = o.reply
  /\ result' = CtlResult(o, text)
  /\ pc' = "ctl_done"
  /\ UNCHANGED <<op, tries, marks, out>>
  /\ UNCHANGED upper

\* GdbRemoteInterface::run
Run(o) == Ctl("run", "Run command failed", o)

\* GdbRemoteInterface::halt
Halt(o) == Ctl("halt", "Halt failed.", o)

\* GdbRemoteInterface::step
Step(o) == Ctl("step", "Step command failed", o)

NextCtl ==
  \/ \E o \in Outcomes(CtlReplies) : Run(o)
  \/ \E o \in Outcomes(CtlReplies) : Halt(o)
  \/ \E o \in Outcomes(CtlReplies) : Step(o)

SpecCtl == InitCtl /\ [][NextCtl]_vars

\* ------------------------------------------------------------ HlaInterface::state
\* Dhcsr::ADDRESS, 0xE000EDF0
DHCSR_ADDRESS == U32(57344, 60912)

\* the position of S_HALT in DHCSR
S_HALT_BIT == 17

\* 2^n
RECURSIVE Pow2(_)
Pow2(n) == IF n = 0 THEN 1 ELSE 2 * Pow2(n - 1)

\* dhcsr.s_halt()
SHalt(v) == (v.hi \div Pow2(S_HALT_BIT - 16)) % 2 = 1

\* HlaInterface::read_mem_int after send_packet returned `response`: the
\* bytes to append to the Vec; `OK:` may precede them, and their number must
\* be the requested one
HlaReadMemDecode(response, len) ==
  LET chk == CheckCmdResult(response)
      p == GetPayload(response).val
      rest == IF StartsWith(p, <<CH_O, CH_K, COLON>>) THEN SubSeq(p, 4, Len(p)) ELSE p
      decoded == Unescape(rest)
  IN  IF chk.tag # "ok" THEN chk
      ELSE IF Len(decoded) # len THEN Err("ShortRead")
      ELSE Ok(decoded)

\* HlaInterface::read_mem on entry: len = size * count, an empty Vec
HlaReadCall(name, a, size, count) ==
  [name |-> name, addr |-> a, len |-> size * count, reads |-> 0]

\* the bytes of DHCSR in the device
DhcsrBytes == {0, 2, RBRACE, 253, 255}

\* the replies of the device to the read of DHCSR: its four bytes with and
\* without `OK:`, three of them, an error
StateReplies(mem) ==
  {DeviceReply(<<CH_O, CH_K, COLON>> \o Escape(mem)),
   DeviceReply(Escape(mem)),
   DeviceReply(<<CH_O, CH_K, COLON>> \o Escape(SubSeq(mem, 1, 3))),
   DeviceReply(<<CH_E, 48, 53>>)}

InitState ==
  /\ pc = "state"
  /\ op = [name |-> "state"]
  /\ call = HlaReadCall("read_mem", DHCSR_ADDRESS, 4, 1)
  /\ memory \in {<<b1, b2, b3, b4>> : b1 \in DhcsrBytes, b2 \in DhcsrBytes,
                                     b3 \in DhcsrBytes, b4 \in DhcsrBytes}
  /\ max_packet_size = DEFAULT_PACKET_SIZE
  /\ log = <<>>
  /\ sendbuf = <<>>
  /\ frame = <<>>
  /\ tries = 0
  /\ written = <<>>
  /\ acks = <<>>
  /\ buf = <<>>
  /\ marks = <<>>
  /\ result = None
  /\ out = <<>>

\* one turn of the loop of read_mem: read_mem_int of min(len, ICDI_MAX_RW_PACKET)
\* bytes, and the `?` that returns its error from state
StateRead(o) ==
  LET read_len == Min(call.len, ICDI_MAX_RW_PACKET)
      cmd == ReadMemBuf(call.addr, read_len)
      res == IF o.err = "ok" THEN HlaReadMemDecode(o.reply, read_len) ELSE Err(o.err)
  IN  /\ pc = "state"
      /\ call.len > 0
      /\ sendbuf' = cmd
      /\ frame' = Frame(cmd)
      /\ written' = written \o Sent(cmd, o)
      /\ acks' = acks \o AcksOf(o)
      /\ buf' = o.reply
      /\ IF res.tag = "ok"
         THEN /\ out' = out \o res.val
              /\ call' = [call EXCEPT !.addr = WrappingAdd(call.addr, read_len),
                                      !.len = call.len - read_len,
                                      !.reads = call.reads + 1]
              /\ UNCHANGED <<pc, result>>
         ELSE /\ call' = [call EXCEPT !.reads = call.reads + 1]
              /\ result' = res
              /\ pc' = "state_done"
              /\ UNCHANGED out
      /\ UNCHANGED <<op, tries, marks, max_packet_size, memory, log>>

\* the loop of read_mem has ended: try_into().unwrap() panics unless the Vec
\* holds four bytes; from_le_bytes, s_halt
StateReturn ==
  /\ pc = "state"
  /\ call.len = 0
  /\ result' = IF Len(out) # 4 THEN Panic
               ELSE IF SHalt(FromLeBytes(out)) THEN Ok("Halted") ELSE Ok("Running")
  /\ pc' = "state_done"
  /\ UNCHANGED <<op, sendbuf, frame, tries, written, acks, buf, marks, out>>
  /\ UNCHANGED upper

NextState ==
  \/ \E o \in Outcomes(StateReplies(memory)) : StateRead(o)
  \/ StateReturn

SpecState == InitState /\ [][NextState]_vars

\* ------------------------------------------------------------ the probe: attach, detach and the operations between
\* the operations a session logs before the one in progress
MaxOps == 2

\* b"qSupported", b"!", b"qRcmd,", b"debug disable", "PacketSize="
QSUPPORTED == <<113, 83, 117, 112, 112, 111, 114, 116, 101, 100>>
ATTACH_BANG == <<BANG>>
QRCMD == <<113, 82, 99, 109, 100, COMMA>>
DEBUG_DISABLE == <<100, 101, 98, 117, 103, 32, 100, 105, 115, 97, 98, 108, 101>>
PACKET_SIZE == <<80, 97, 99, 107, 101, 116, 83, 105, 122, 101, EQUALS>>

\* the buffer send_remote_command hands to send_packet
RemoteCmdBuf(cmd) == NewSendBuffer \o QRCMD \o WriteHex(cmd)

\* usize::from_str_radix(s, 16): a sign `+` may come first, at least one
\* digit must follow, every digit a hex digit; -1 for Err (the strings of
\* the model have fewer than eight digits)
RECURSIVE HexDigitsValue(_)
HexDigitsValue(s) ==
  IF s = <<>> THEN 0
  ELSE 16 * HexDigitsValue(SubSeq(s, 1, Len(s) - 1)) + HexVal(s[Len(s)])

ParseHexUsize(s) ==
  LET d == IF s # <<>> /\ s[1] = PLUS THEN Tail(s) ELSE s
  IN  IF d = <<>> \/ \E i \in 1..Len(d) : HexVal(d[i]) < 0 THEN -1
      ELSE HexDigitsValue(d)

\* resp.split(';')
RECURSIVE Split(_)
Split(s) ==
  IF \A i \in 1..Len(s) : s[i] # SEMICOLON THEN <<s>>
  ELSE LET k == CHOOSE i \in 1..Len(s) :
                  s[i] = SEMICOLON /\ \A j \in 1..(i - 1) : s[j] # SEMICOLON
       IN  <<SubSeq(s, 1, k - 1)>> \o Split(SubSeq(s, k + 1, Len(s)))

\* the loop of q_supported over the features: every PacketSize= sets
\* max_packet_size, and one that does not parse returns the error
RECURSIVE Features(_, _)
Features(size, fs) ==
  IF fs = <<>> THEN [res |-> Ok(<<>>), size |-> size]
  ELSE IF StartsWith(fs[1], PACKET_SIZE)
       THEN LET v == ParseHexUsize(SubSeq(fs[1], Len(PACKET_SIZE) + 1, Len(fs[1])))
            IN  IF v < 0 THEN [res |-> Err("ParsePacketSize"), size |-> size]
                ELSE Features(v, Tail(fs))
       ELSE Features(size, Tail(fs))

\* q_supported after send_cmd returned `response` (the payloads of the model
\* are ASCII, so from_utf8 succeeds)
QSupportedDecode(size, response) ==
  LET p == GetPayload(response)
  IN  IF p.tag # "ok" THEN [res |-> p, size |-> size]
      ELSE Features(size, Split(p.val))

\* send_packet with a device that acknowledges at once, or a read_bulk that
\* fails
ProbeOutcomes(replies) ==
  {o \in Outcomes(replies) : o.sent = 1 /\ o.err \in {"ok", "UsbRead"}}

\* send_cmd(..).and_then(|r| r.check_cmd_result())
Checked(o) == IF o.err = "ok" THEN CheckCmdResult(o.reply) ELSE Err(o.err)

\* the replies of the device: OK, an error, its features
ReplyOk == DeviceReply(<<CH_O, CH_K>>)
ReplyE05 == DeviceReply(<<CH_E, 48, 53>>)
ReplyPacketSize == DeviceReply(PACKET_SIZE \o <<52, 48, 48>>)
ReplyFeatures ==
  DeviceReply(<<113, 88, 102, 101, 114, PLUS, SEMICOLON>> \o PACKET_SIZE \o <<55, 102, 102>>)
ReplyBadPacketSize ==
  DeviceReply(PACKET_SIZE \o <<52, 48, 48, SEMICOLON>> \o PACKET_SIZE \o <<122>>)

\* the address and the bytes of the memory operations of a session
ProbeAddr == U32(8192, 0)
ProbeData == <<1, HASH>>

\* the probe new_from_selector returns
NewProbe == [name |-> "new"]

InitProbe ==
  /\ pc = "probe"
  /\ op = NewProbe
  /\ max_packet_size = DEFAULT_PACKET_SIZE
  /\ call = [name |-> "new", replies |-> <<>>]
  /\ memory = EmptyStore
  /\ log = <<>>
  /\ sendbuf = <<>>
  /\ frame = <<>>
  /\ tries = 0
  /\ written = <<>>
  /\ acks = <<>>
  /\ buf = <<>>
  /\ marks = <<>>
  /\ result = None
  /\ out = <<>>

\* the log once the operation that has returned is added
LogAfter ==
  IF op = NewProbe THEN log
  ELSE Append(log, [name |-> op.name, ok |-> result.tag = "ok"])

\* an operation of the session from its call to its return: the buffers
\* it had send_packet write, the replies it received, its result and
\* max_packet_size afterwards
ProbeOp(name, cmds, replies, res, size) ==
  /\ pc = "probe"
  /\ Len(LogAfter) <= MaxOps
  /\ log' = LogAfter
  /\ op' = [name |-> name]
  /\ call' = [name |-> name, replies |-> replies]
  /\ written' = [i \in 1..Len(cmds) |-> Frame(cmds[i])]
  /\ sendbuf' = IF cmds = <<>> THEN <<>> ELSE cmds[Len(cmds)]
  /\ frame' = IF cmds = <<>> THEN <<>> ELSE Frame(cmds[Len(cmds)])
  /\ buf' = IF replies = <<>> THEN <<>> ELSE replies[Len(replies)]
  /\ result' = res
  /\ max_packet_size' = size
  /\ UNCHANGED <<pc, tries, acks, marks, out, memory>>

\* one send_packet of an operation: what it wrote and what it received
Wrote(cmd, o) == [i \in 1..o.sent |-> cmd]
Received(o) == IF o.err = "ok" THEN <<o.reply>> ELSE <<>>

\* IcdiProbe::attach: qSupported and its check, then `!` and its check;
\* max_packet_size is not assigned
Attach(o1, o2) ==
  LET q == SendCmdBuf(QSUPPORTED)
      b == SendCmdBuf(ATTACH_BANG)
  IN  IF Checked(o1).tag # "ok"
      THEN ProbeOp("attach", Wrote(q, o1), Received(o1), Checked(o1), max_packet_size)
      ELSE ProbeOp("attach", Wrote(q, o1) \o Wrote(b, o2),
                   Received(o1) \o Received(o2), Checked(o2), max_packet_size)

\* IcdiProbe::detach
Detach(o) ==
  ProbeOp("detach", Wrote(RemoteCmdBuf(DEBUG_DISABLE), o), Received(o),
          Checked(o), max_packet_size)

\* run, halt and step of the device of the probe
ProbeCtl(name, text, o) ==
  ProbeOp(name, Wrote(SendCmdBuf(CtlCmd(name)), o), Received(o),
          CtlResult(o, text), max_packet_size)

\* read_8: read_mem of a slice shorter than a chunk, one read_mem_int
Read8(o) ==
  LET c == ReadMemCall(ProbeAddr, Len(ProbeData))
  IN  ProbeOp("read_8", Wrote(BufOf(c), o), Received(o),
              IF o.err = "ok" THEN Finish(c, o.reply).res ELSE Err(o.err),
              max_packet_size)

\* write_8: write_mem of a slice shorter than a chunk, one write_mem_int
Write8(o) ==
  LET c == WriteMemCall(ProbeAddr, ProbeData)
  IN  ProbeOp("write_8", Wrote(BufOf(c), o), Received(o),
              IF o.err = "ok" THEN Finish(c, o.reply).res ELSE Err(o.err),
              max_packet_size)

\* IcdiUsbInterface::q_supported
QSupported(o) ==
  LET d == QSupportedDecode(max_packet_size, o.reply)
  IN  ProbeOp("q_supported", Wrote(SendCmdBuf(QSUPPORTED), o), Received(o),
              IF o.err = "ok" THEN d.res ELSE Err(o.err),
              IF o.err = "ok" THEN d.size ELSE max_packet_size)

NextProbe ==
  \/ \E o1 \in ProbeOutcomes({ReplyOk, ReplyE05, ReplyPacketSize}),
        o2 \in ProbeOutcomes({ReplyOk, ReplyE05}) : Attach(o1, o2)
  \/ \E o \in ProbeOutcomes({ReplyOk, ReplyE05}) : Detach(o)
  \/ \E o \in ProbeOutcomes({ReplyOk, ReplyE05}) : ProbeCtl("run", "Run command failed", o)
  \/ \E o \in ProbeOutcomes({ReplyOk, ReplyE05}) : ProbeCtl("halt", "Halt failed.", o)
  \/ \E o \in ProbeOutcomes({ReplyOk, ReplyE05}) : ProbeCtl("step", "Step command failed", o)
  \/ \E o \in ProbeOutcomes({DeviceReply(<<CH_O, CH_K, COLON>> \o Escape(ProbeData)), ReplyE05}) :
        Read8(o)
  \/ \E o \in ProbeOutcomes({ReplyOk, ReplyE05}) : Write8(o)
  \/ \E o \in ProbeOutcomes({ReplyPacketSize, ReplyFeatures, ReplyBadPacketSize, ReplyOk}) :
        QSupported(o)

SpecProbe == InitProbe /\ [][NextProbe]_vars

\* ------------------------------------------------------------ read_mem, write_mem with a chunk that fails
\* the replies of the device that make the command of a chunk fail: an
\* error, and to a read one byte less than was asked for
FailReplies(c) ==
  IF c.name = "read_mem_int"
  THEN {ReplyE05,
        DeviceReply(<<CH_O, CH_K, COLON>> \o Escape(Pattern(Len(c.data) - 1, 0)))}
  ELSE {ReplyE05}

\* read_mem and write_mem of one byte, of one chunk, and of the most chunks
\* and a byte
InitChunks ==
  /\ pc = "loop"
  /\ call \in {MemCall(name, a, Pattern(n, 0)) :
                 name \in {"read_mem", "write_mem"},
                 a \in {U32(8192, 0), U32(0, 65000)},
                 n \in {1, ICDI_MAX_RW_PACKET, MaxChunks * ICDI_MAX_RW_PACKET + 1}}
  /\ out = call.data
  /\ op = RunCall
  /\ sendbuf = <<>>
  /\ frame = <<>>
  /\ tries = 0
  /\ written = <<>>
  /\ acks = <<>>
  /\ buf = <<>>
  /\ marks = <<>>
  /\ result = None
  /\ max_packet_size = DEFAULT_PACKET_SIZE
  /\ memory = EmptyStore
  /\ log = <<>>

\* a loop that goes on to the next chunk after the error of this one
ChunkFailsGoesOn(reply) ==
  /\ pc = "loop"
  /\ call.pos < Len(out)
  /\ op' = ChunkCall(call, out)
  /\ sendbuf' = BufOf(ChunkCall(call, out))
  /\ frame' = Frame(BufOf(ChunkCall(call, out)))
  /\ written' = Append(written, Frame(BufOf(ChunkCall(call, out))))
  /\ buf' = reply
  /\ acks' = Append(acks, reply[1])
  /\ result' = Finish(ChunkCall(call, out), reply).res
  /\ pc' = "add"
  /\ UNCHANGED <<tries, marks, out, max_packet_size, call, memory, log>>

\* read_mem_int or write_mem_int of the next chunk, and the device answers
\* with a reply that makes it fail: the `?` returns the error
ChunkFails(reply) ==
  /\ pc = "loop"
  /\ call.pos < Len(out)
  /\ LET c == ChunkCall(call, out)
         fin == Finish(c, reply)
     IN  /\ op' = c
         /\ sendbuf' = BufOf(c)
         /\ frame' = Frame(BufOf(c))
         /\ written' = Append(written, Frame(BufOf(c)))
         /\ buf' = reply
         /\ acks' = Append(acks, reply[1])
         /\ result' = fin.res
         /\ out' = WithChunk(out, call.pos, fin.data)
         /\ pc' = IF fin.res.tag = "ok" THEN "add" ELSE "done"
  /\ UNCHANGED <<tries, marks, max_packet_size, call, memory, log>>

NextChunks ==
  \/ \E prefix \in ReadPrefixes : ChunkIo(prefix)
  \/ \E reply \in FailReplies(ChunkCall(call, out)) : ChunkFails(reply)
  \/ ChunkUsbWrite
  \/ ChunkUsbRead
  \/ ChunkAdd
  \/ LoopEnd

SpecChunks == InitChunks /\ [][NextChunks]_vars

\* ------------------------------------------------------------ q_supported, then read_mem or write_mem
\* a transfer, before it or after q_supported
InitSize ==
  /\ pc \in {"negotiate", "loop"}
  /\ call \in {MemCall(name, U32(8192, 0), Pattern(n, 0)) :
                 name \in {"read_mem", "write_mem"},
                 n \in {1, 481, ICDI_MAX_RW_PACKET + 1, MaxChunks * ICDI_MAX_RW_PACKET + 1}}
  /\ out = call.data
  /\ op = RunCall
  /\ sendbuf = <<>>
  /\ frame = <<>>
  /\ tries = 0
  /\ written = <<>>
  /\ acks = <<>>
  /\ buf = <<>>
  /\ marks = <<>>
  /\ result = None
  /\ max_packet_size = DEFAULT_PACKET_SIZE
  /\ memory = EmptyStore
  /\ log = <<>>

\* q_supported before the transfer: the reply sets max_packet_size
Negotiate(o) ==
  LET d == QSupportedDecode(max_packet_size, o.reply)
  IN  /\ pc = "negotiate"
      /\ max_packet_size' = IF o.err = "ok" THEN d.size ELSE max_packet_size
      /\ log' = Append(log, [name |-> "q_supported",
                             sent |-> Sent(SendCmdBuf(QSUPPORTED), o),
                             reply |-> o.reply,
                             res |-> IF o.err = "ok" THEN d.res ELSE Err(o.err)])
      /\ pc' = "loop"
      /\ UNCHANGED <<op, sendbuf, frame, tries, written, acks, buf, marks, result,
                     out, call, memory>>

NextSize ==
  \/ \E o \in ProbeOutcomes({ReplyPacketSize, ReplyFeatures, ReplyBadPacketSize, ReplyOk}) :
        Negotiate(o)
  \/ ChunkIo(<<CH_O, CH_K, COLON>>)
  \/ ChunkAdd
  \/ LoopEnd

SpecSize == InitSize /\ [][NextSize]_vars

\* ------------------------------------------------------------ send_packet to its end
\* what one read_bulk may deliver: nothing, a complete reply that begins
\* with `-`, with `+` or with another byte, and bytes without a `#`
LiveChunks ==
  { <<>>,
    <<MINUS, DOLLAR, CH_O, CH_K, HASH, 57, 97>>,
    <<PLUS, DOLLAR, CH_O, CH_K, HASH, 57, 97>>,
    <<DOLLAR, CH_O, CH_K, HASH, 57, 97>>,
    Filler(BUF_SIZE \div 2),
    Filler(BUF_SIZE \div 2 - 3) }

\* run has built its buffer and send_packet has appended the checksum
InitLive ==
  /\ pc = "write"
  /\ op = RunCall
  /\ sendbuf = BufOf(RunCall)
  /\ frame = Frame(BufOf(RunCall))
  /\ tries = 0
  /\ written = <<>>
  /\ acks = <<>>
  /\ buf = <<>>
  /\ marks = <<>>
  /\ result = None
  /\ out = <<>>
  /\ UpperInit

\* from_bulk_receive calls read_bulk for the rest of the buffer
ReadBulk ==
  /\ pc = "recv"
  /\ Incomplete(buf)
  /\ Len(buf) < BUF_SIZE
  /\ pc' = "reading"
  /\ UNCHANGED <<op, sendbuf, frame, tries, written, acks, buf, marks, result, out>>
  /\ UNCHANGED upper

\* read_bulk returns the number of bytes it has put into the slice: len += n
ReadBulkOk(chunk) ==
  /\ pc = "reading"
  /\ Len(chunk) <= BUF_SIZE - Len(buf)
  /\ buf' = buf \o chunk
  /\ pc' = "recv"
  /\ UNCHANGED <<op, sendbuf, frame, tries, written, acks, marks, result, out>>
  /\ UNCHANGED upper

\* read_bulk fails (a timeout among others): the `?` returns the error
ReadBulkErr ==
  /\ pc = "reading"
  /\ result' = Err("UsbRead")
  /\ pc' = "done"
  /\ UNCHANGED <<op, sendbuf, frame, tries, written, acks, buf, marks, out>>
  /\ UNCHANGED upper

NextLive ==
  \/ WriteOk
  \/ WriteErr
  \/ WriteShort
  \/ ReadBulk
  \/ \E chunk \in LiveChunks : ReadBulkOk(chunk)
  \/ ReadBulkErr
  \/ RecvFull
  \/ RecvReturn
  \/ AckMinus
  \/ AckPlus
  \/ AckOther

\* the driver takes its next step, and every read_bulk returns
SpecLive == InitLive /\ [][NextLive]_vars /\ WF_vars(NextLive)

\* ------------------------------------------------------------ a chunk of the largest size
\* chunks of bytes that all need the escape, and one of mixed bytes
AllEscaped(n, k) ==
  [i \in 1..n |-> <<HASH, DOLLAR, RBRACE, STAR>>[((i + k) % 4) + 1]]

\* the lengths of the slices handed to read_mem_int and write_mem_int: a chunk
\* of read_mem or write_mem, and the shortest slice whose escaped reply is
\* longer than the ReceiveBuffer
OverLong == (BUF_SIZE - 8) \div 2 + 1
MaxLens == {1, ICDI_MAX_RW_PACKET - 1, ICDI_MAX_RW_PACKET, OverLong}

LargeData ==
  UNION { {AllEscaped(n, k) : k \in 0..3} \cup {Pattern(n, 0)} : n \in MaxLens }

\* the device answers `x` with OK: and its escaped bytes, `X` with OK
MaxReply ==
  IF op.name = "read_mem_int"
  THEN DeviceReply(<<CH_O, CH_K, COLON>> \o Escape(memory))
  ELSE DeviceReply(<<CH_O, CH_K>>)

\* one bulk transfer carries at most k bytes of the reply, and no more than
\* the slice read_bulk was given
Transfers == {BUF_SIZE \div 2, BUF_SIZE}
Transfer(k) ==
  SubSeq(MaxReply, Len(buf) + 1,
         Min(Len(MaxReply), Min(Len(buf) + k, BUF_SIZE)))

InitMax ==
  /\ pc = "write"
  /\ \E d \in LargeData :
       \E c \in {WriteMemCall(U32(8192, 0), d), ReadMemCall(U32(8192, 0), Len(d))} :
         /\ op = c
         /\ sendbuf = BufOf(c)
         /\ frame = Frame(BufOf(c))
         /\ memory = d
  /\ tries = 0
  /\ written = <<>>
  /\ acks = <<>>
  /\ buf = <<>>
  /\ marks = <<>>
  /\ result = None
  /\ out = <<>>
  /\ max_packet_size = DEFAULT_PACKET_SIZE
  /\ call = NoCall
  /\ log = <<>>

NextMax ==
  \/ WriteOk
  \/ ReadBulk
  \/ \E k \in Transfers : ReadBulkOk(Transfer(k))
  \/ ReadBulkErr
  \/ RecvFull
  \/ RecvReturn
  \/ AckPlus

SpecMax == InitMax /\ [][NextMax]_vars

\* ------------------------------------------------------------ read_reg and the case of the digits
\* the halves of the values the registers hold
ReadHalves == {0, 224, 4660, 48879, 57005, 57344}

\* digits with every other one in upper case
MixedCase(d) ==
  [i \in 1..Len(d) |-> IF i % 2 = 0 /\ d[i] >= 97 THEN d[i] - 32 ELSE d[i]]

\* the replies of the device to `p`: the digits it holds in lower, upper and
\* mixed case, an error, and an `E` with less than two bytes after it
CaseReplies(mem, cmd) ==
  {DeviceReply(RegLoad(mem, cmd)),
   DeviceReply(UpperCase(RegLoad(mem, cmd))),
   DeviceReply(MixedCase(RegLoad(mem, cmd))),
   DeviceReply(<<CH_E, 48, 53>>),
   DeviceReply(<<CH_E, 48>>),
   DeviceReply(<<CH_E>>)}

\* a write_reg has returned Ok and the device holds the value
InitRegRead ==
  /\ pc = "written"
  /\ \E r \in {0, 25} : \E hi \in ReadHalves : \E lo \in ReadHalves :
       /\ op = RegCall("write_reg", r, U32(hi, lo))
       /\ sendbuf = WriteRegBuf(r, U32(hi, lo))
       /\ frame = Frame(WriteRegBuf(r, U32(hi, lo)))
       /\ written = <<Frame(WriteRegBuf(r, U32(hi, lo)))>>
       /\ memory = RegStore(EmptyStore, WriteRegBuf(r, U32(hi, lo)))
  /\ buf = DeviceReply(<<CH_O, CH_K>>)
  /\ result = Ok(<<>>)
  /\ tries = 0
  /\ acks = <<>>
  /\ marks = <<>>
  /\ out = <<>>
  /\ max_packet_size = DEFAULT_PACKET_SIZE
  /\ call = NoCall
  /\ log = <<>>

NextRegRead ==
  \E o \in Outcomes(CaseReplies(memory, ReadRegBuf(op.regsel))) : ReadReg(o)

SpecRegRead == InitRegRead /\ [][NextRegRead]_vars

\* ------------------------------------------------------------ the claims
Range(s) == {s[i] : i \in DOMAIN s}

RECURSIVE SumSeq(_)
\* the sum of the bytes of s
SumSeq(s) == IF s = <<>> THEN 0 ELSE Head(s) + SumSeq(Tail(s))

\* the value of a lower-case hex digit, -1 for any other byte
LowerHexValue(ch) ==
  IF ch \in 48..57 THEN ch - 48 ELSE IF ch \in 97..102 THEN ch - 87 ELSE -1

\* the value of a hex digit of either case, -1 for any other byte
HexDigitValue(ch) ==
  IF ch \in 65..70 THEN ch - 55 ELSE LowerHexValue(ch)

\* the number four lower-case hex digits write
Hex4Value(d) ==
  ((LowerHexValue(d[1]) * 16 + LowerHexValue(d[2])) * 16
     + LowerHexValue(d[3])) * 16 + LowerHexValue(d[4])

Special == {DOLLAR, HASH, RBRACE, STAR}

\* what follows the `}` for each escaped byte: the byte with bit 5 cleared
EscapedAs(b) ==
  CASE b = HASH -> 3 [] b = DOLLAR -> 4 [] b = RBRACE -> 93 [] b = STAR -> 10

\* where the encoding of data byte i starts in the escaped bytes
EscPos(d, i) == i + Cardinality({j \in 1..(i - 1) : d[j] \in Special})

\* a complete frame: at least three bytes, `#` third from the end
Complete(b) == Len(b) >= 3 /\ b[Len(b) - 2] = HASH

Returned == pc \in {"done", "idle"}

\* C1: every frame send_packet has written is `$`, the body (the buffer after
\* its leading `$`), `#`, and the two lower-case hex digits of the sum of the
\* body bytes mod 256; the `$` is not part of the sum.
C1_Framing ==
  \A i \in 1..Len(written) :
    LET f == written[i]
        body == Tail(sendbuf)
        n == Len(body)
    IN  /\ Len(f) = n + 4
        /\ f[1] = DOLLAR
        /\ SubSeq(f, 2, n + 1) = body
        /\ f[n + 2] = HASH
        /\ LowerHexValue(f[n + 3]) >= 0
        /\ LowerHexValue(f[n + 4]) >= 0
        /\ 16 * LowerHexValue(f[n + 3]) + LowerHexValue(f[n + 4])
             = SumSeq(body) % 256

\* three frames of a write_mem_int were written, and the byte sum wrapped
C1_Witness ==
  /\ Len(written) = 3
  /\ op.name = "write_mem_int"
  /\ SumSeq(Tail(sendbuf)) > 255

\* C2: a reply that begins with `-` makes send_packet write the identical
\* frame again, a reply that begins with `+` is returned at once with no
\* further write, a call writes at most three frames, and three `-` replies
\* in a row end it with TooManyRetries.
C2_AckRetry ==
  /\ Len(written) <= 3
  /\ \A i \in 1..Len(written) : written[i] = written[1]
  /\ \A i \in 1..Len(acks) :
       /\ (acks[i] = MINUS /\ i < 3) =>
            \/ Len(written) > i
            \/ Len(written) = i /\ pc = "write"
            \/ Len(written) = i /\ Returned /\ result.tag \in {"UsbWrite", "ShortWrite"}
       /\ acks[i] = PLUS =>
            /\ i = Len(acks)
            /\ Len(written) = i
            /\ Returned
            /\ buf[1] = PLUS
            /\ result = Finish(op, buf).res
  /\ acks = <<MINUS, MINUS, MINUS>> =>
       Returned /\ result.tag = "TooManyRetries" /\ Len(written) = 3

\* three `-` replies ended the call
C2_Witness ==
  /\ acks = <<MINUS, MINUS, MINUS>>
  /\ result.tag = "TooManyRetries"
  /\ Len(written) = 3

\* C3: a complete reply whose first byte is neither `+` nor `-` is returned
\* to the caller as the reply, and the frame is not written again.
C3_OtherIsReply ==
  \A i \in 1..Len(acks) :
    acks[i] \notin {PLUS, MINUS} =>
      /\ i = Len(acks)
      /\ Len(written) = i
      /\ Returned
      /\ result = Finish(op, buf).res

\* C4: the X body is `X`, the address and the number of data bytes as eight
\* lower-case hex digits each, `:`, and then every data byte in order, a `$`,
\* `#`, `}` or `*` as `}` and the byte with bit 5 flipped, any other byte as
\* itself.
C4_WriteMemBody ==
  pc \in {"built", "sent", "decoded"} =>
    LET body == Tail(sendbuf)
        d == op.data
        r == SubSeq(body, 20, Len(body))
    IN  /\ sendbuf[1] = DOLLAR
        /\ Len(body) >= 19
        /\ body[1] = CH_X
        /\ body[10] = COMMA
        /\ body[19] = COLON
        /\ \A k \in (2..9) \cup (11..18) : LowerHexValue(body[k]) >= 0
        /\ Hex4Value(SubSeq(body, 2, 5)) = op.addr.hi
        /\ Hex4Value(SubSeq(body, 6, 9)) = op.addr.lo
        /\ Hex4Value(SubSeq(body, 11, 14)) = 0
        /\ Hex4Value(SubSeq(body, 15, 18)) = Len(d)
        /\ Len(r) = Len(d) + Cardinality({j \in 1..Len(d) : d[j] \in Special})
        /\ \A i \in 1..Len(d) :
             IF d[i] \in Special
             THEN r[EscPos(d, i)] = RBRACE /\ r[EscPos(d, i) + 1] = EscapedAs(d[i])
             ELSE r[EscPos(d, i)] = d[i]
        /\ (op.addr = U32(0, 4096) /\ d = <<35, 36, 125, 42>>) =>
             body = <<88, 48, 48, 48, 48, 49, 48, 48, 48, 44,
                      48, 48, 48, 48, 48, 48, 48, 52, 58,
                      125, 3, 125, 4, 125, 93, 125, 10>>

\* the X command for [0x23, 0x24, 0x7d, 0x2a] at 0x1000 was built
C4_Witness ==
  /\ pc = "built"
  /\ op.addr = U32(0, 4096)
  /\ op.data = <<35, 36, 125, 42>>

\* C5: unescaping the escaped bytes gives the data back, and in the escaped
\* bytes every `}` starts the encoding of an escaped data byte and no `$`,
\* `#` or `*` occurs.
C5_EscapeRoundTrip ==
  /\ pc = "decoded" => out = op.data
  /\ pc \in {"built", "sent", "decoded"} =>
       LET d == op.data
           r == SubSeq(sendbuf, HeaderLen + 1, Len(sendbuf))
           markers == {EscPos(d, i) : i \in {k \in 1..Len(d) : d[k] \in Special}}
       IN  \A j \in 1..Len(r) :
             /\ r[j] \notin {DOLLAR, HASH, STAR}
             /\ r[j] = RBRACE => j \in markers

\* data with `}`, `]` (what `}` escapes to) and `*` went through both ways
C5_Witness ==
  /\ pc = "decoded"
  /\ Len(op.data) >= 3
  /\ {RBRACE, 93, STAR} \subseteq Range(op.data)
  /\ out = op.data

\* the payload of the reply an `x` command got, when it has one
ReplyPayload == GetPayload(buf).val

\* the escaped data of a memory-read payload, with or without the `OK:`
EscapedPart(p) ==
  IF StartsWith(p, <<CH_O, CH_K, COLON>>) THEN SubSeq(p, 4, Len(p)) ELSE p

\* C6: read_mem_int succeeds on a reply whose payload is the escaped data
\* with the prefix `OK:` and on one whose payload is the escaped data alone,
\* and stores the decoded bytes in the caller's slice.
C6_OkPrefixOptional ==
  ( /\ Returned
    /\ op.name = "read_mem_int"
    /\ acks # <<>>
    /\ acks[Len(acks)] = PLUS
    /\ GetPayload(buf).tag = "ok"
    /\ Len(Unescape(EscapedPart(ReplyPayload))) = Len(op.data) )
  => /\ result.tag = "ok"
     /\ out = Unescape(EscapedPart(ReplyPayload))

\* C7 as stated, of the calls that return: an empty payload is EmptyResponse,
\* `OK...` is success, `E` and two hex digits is the command-failed error
\* with their value, and every other non-empty payload is success.
C7_AnyOtherIsOk ==
  (pc = "checked" /\ GetPayload(buf).tag = "ok") =>
    LET p == ReplyPayload
        isOk == StartsWith(p, <<CH_O, CH_K>>)
        isErr == /\ Len(p) >= 3
                 /\ p[1] = CH_E
                 /\ HexDigitValue(p[2]) >= 0
                 /\ HexDigitValue(p[3]) >= 0
    IN  /\ p = <<>> => result.tag = "EmptyResponse"
        /\ isOk => result.tag = "ok"
        /\ isErr => /\ result.tag = "CommandFailed"
                    /\ result.code = 16 * HexDigitValue(p[2]) + HexDigitValue(p[3])
        /\ (p # <<>> /\ ~isOk /\ ~isErr /\ result # Panic) => result.tag = "ok"

\* C7 amended: an empty payload is EmptyResponse, `OK...` is success, `E` and
\* two hex digits is the command-failed error with their value, every other
\* non-empty payload that does not begin with `E` is success, and no payload
\* that begins with `E` is success.
C7_CheckCmdResult ==
  (pc = "checked" /\ GetPayload(buf).tag = "ok") =>
    LET p == ReplyPayload
        isOk == StartsWith(p, <<CH_O, CH_K>>)
        isErr == /\ Len(p) >= 3
                 /\ p[1] = CH_E
                 /\ HexDigitValue(p[2]) >= 0
                 /\ HexDigitValue(p[3]) >= 0
    IN  /\ p = <<>> => result.tag = "EmptyResponse"
        /\ isOk => result.tag = "ok"
        /\ isErr => /\ result.tag = "CommandFailed"
                    /\ result.code = 16 * HexDigitValue(p[2]) + HexDigitValue(p[3])
        /\ (p # <<>> /\ ~isOk /\ p[1] # CH_E) => result.tag = "ok"
        /\ (p # <<>> /\ p[1] = CH_E) => result.tag # "ok"

\* the payload `Eff` was classified as the error 255
C7_Witness ==
  /\ pc = "checked"
  /\ GetPayload(buf) = Ok(<<CH_E, 102, 102>>)
  /\ result = ErrCode("CommandFailed", 255)

\* the bytes of b strictly between its first `$` and its last `#`
Between(b) ==
  LET lo == CHOOSE i \in 1..Len(b) : b[i] = DOLLAR /\ \A j \in 1..(i - 1) : b[j] # DOLLAR
      hi == CHOOSE i \in 1..Len(b) : b[i] = HASH /\ \A j \in (i + 1)..Len(b) : b[j] # HASH
  IN  SubSeq(b, lo + 1, hi - 1)

\* C8: get_payload returns the bytes strictly between the first `$` and the
\* last `#` of the buffer, and a framing error when the buffer has no `$` or
\* no `#`.
C8_GetPayload ==
  pc = "payload" =>
    IF DOLLAR \in Range(buf) /\ HASH \in Range(buf)
    THEN result = Ok(Between(buf))
    ELSE result.tag = "Malformed"

\* C9 as stated: a buffer from_bulk_receive returned holds a `$`, has `#`
\* third from the end and two hex digits after it.
C9_CompleteIsWellFormed ==
  pc = "ack" =>
    /\ DOLLAR \in Range(buf)
    /\ Complete(buf)
    /\ HexDigitValue(buf[Len(buf) - 1]) >= 0
    /\ HexDigitValue(buf[Len(buf)]) >= 0

\* C9 amended: a buffer from_bulk_receive returned has at least three and at
\* most 2048 bytes and `#` third from the end.
C9_CompleteHasHash ==
  pc = "ack" =>
    /\ Len(buf) >= 3
    /\ Len(buf) <= 2048
    /\ buf[Len(buf) - 2] = HASH

\* a buffer without any `$` and without hex digits at its end was returned
C9_Witness ==
  /\ pc = "ack"
  /\ DOLLAR \notin Range(buf)
  /\ Len(marks) > 1

\* C10: from_bulk_receive reads on while the frame is not complete, returns
\* the buffer at the first read after which it has three bytes or more with
\* `#` third from the end, fails when 2048 bytes are there without that, and
\* never holds more than 2048 bytes.
C10_ReceiveLoop ==
  /\ Len(buf) <= 2048
  /\ \A k \in 1..(Len(marks) - 1) : ~Complete(SubSeq(buf, 1, marks[k]))
  /\ pc = "ack" =>
       /\ marks # <<>>
       /\ marks[Len(marks)] = Len(buf)
       /\ Complete(buf)
  /\ pc = "recv" =>
       /\ Complete(buf) =>
            /\ ENABLED RecvReturn
            /\ ~ENABLED RecvFull
            /\ ~ENABLED RecvErr
            /\ ~ENABLED (\E chunk \in DeviceChunks : RecvRead(chunk))
       /\ ~Complete(buf) =>
            /\ ~ENABLED RecvReturn
            /\ ENABLED RecvFull <=> Len(buf) = 2048
       /\ (~Complete(buf) /\ Len(buf) + 3 <= 2048 /\ Len(marks) < MaxReads) =>
            ENABLED RecvRead(<<HASH, 57, 97>>)
  /\ result.tag = "BufferFull" => Len(buf) = 2048 /\ ~Complete(buf)

\* a frame completed by the third read, at exactly 2048 bytes
C10_Witness ==
  /\ pc = "ack"
  /\ Len(buf) = 2048
  /\ Len(marks) = 3

\* C11 as stated: for every maximum packet size from 68 on the chunk size is
\* at most (max - 64) / 2 and a multiple of 4.
C11_MultipleOfFour ==
  pc = "chunk_size" =>
    /\ 2 * result.val <= op.max - 64
    /\ result.val % 4 = 0

\* C11 amended: for every maximum packet size from 68 on the chunk size is at
\* most (max - 64) / 2, at least 2 and even, twice it is a multiple of 4 and
\* less than 4 below max - 64, and it is a multiple of 4 exactly when
\* (max - 64) / 4 is even; for 2048 it is 992.
C11_ChunkSize ==
  pc = "chunk_size" =>
    LET c == result.val
        room == op.max - 64
    IN  /\ 2 * c <= room
        /\ 2 * c > room - 4
        /\ (2 * c) % 4 = 0
        /\ c >= 2
        /\ c % 2 = 0
        /\ c % 4 = 0 <=> (room \div 4) % 2 = 0
        /\ op.max = 2048 => c = 992 /\ c = ICDI_MAX_RW_PACKET

\* the chunk size of the smallest maximum packet size is 2
C11_Witness ==
  /\ pc = "chunk_size"
  /\ op.max = 68
  /\ result.val = 2

\* the address m bytes above a, as two 16-bit halves
AddrPlus(a, m) == U32(a.hi + ((a.lo + m) \div 65536), (a.lo + m) % 65536)

\* the bytes of a written frame between its header of 20 bytes and its `#cc`
FrameData(f) == SubSeq(f, 21, Len(f) - 3)

\* frame f is the memory command of kind ch for len bytes at address a
IsMemCommand(f, ch, a, len) ==
  /\ Len(f) >= 22
  /\ f[1] = DOLLAR
  /\ f[2] = ch
  /\ \A k \in (3..10) \cup (12..19) : LowerHexValue(f[k]) >= 0
  /\ Hex4Value(SubSeq(f, 3, 6)) = a.hi
  /\ Hex4Value(SubSeq(f, 7, 10)) = a.lo
  /\ f[11] = COMMA
  /\ Hex4Value(SubSeq(f, 12, 15)) = 0
  /\ Hex4Value(SubSeq(f, 16, 19)) = len
  /\ f[Len(f) - 2] = HASH

\* a read_mem or write_mem is in progress or has returned
InMem == call.name \in {"read_mem", "write_mem"}

\* no chunk of the transfer has failed, and the loop has ended
AllChunksDone == pc = "done" /\ result.tag \in {"ok", "panic"}

\* C12: read_mem and write_mem of n bytes with the chunk size 992 issue their
\* memory commands in increasing address order, command i (from 0) for
\* min(992, n - 992 i) bytes at addr + 992 i, the write with just the bytes
\* of that range; when no chunk fails there are ceil(n / 992) commands, one
\* for 0 < n <= 992 and none for n = 0.
C12_Chunks ==
  InMem =>
    LET n == Len(call.data)
        k == (n + 991) \div 992
    IN  /\ Len(written) <= k
        /\ \A i \in 1..Len(written) :
             LET a == AddrPlus(call.addr, 992 * (i - 1))
                 len == Min(992, n - 992 * (i - 1))
             IN  /\ a.hi < 65536
                 /\ len >= 1
                 /\ IF call.name = "read_mem"
                    THEN /\ IsMemCommand(written[i], CH_x, a, len)
                         /\ Len(written[i]) = 22
                    ELSE /\ IsMemCommand(written[i], CH_X, a, len)
                         /\ written[i][20] = COLON
                         /\ Unescape(FrameData(written[i]))
                              = SubSeq(call.data, 992 * (i - 1) + 1,
                                       992 * (i - 1) + len)
        /\ AllChunksDone => Len(written) = k
        /\ (AllChunksDone /\ n >= 1 /\ n <= 992) => Len(written) = 1
        /\ n = 0 => written = <<>>
        /\ (call.name = "read_mem" /\ call.addr = U32(8192, 0) /\ n = 32
              /\ written # <<>>) =>
             written = <<<<DOLLAR, CH_x, 50, 48, 48, 48, 48, 48, 48, 48, COMMA,
                           48, 48, 48, 48, 48, 48, 50, 48, HASH, 97, 56>>>>

\* a read of two chunks and one byte returned Ok after three commands, the
\* second of which carried into the upper half of the address
C12_Witness ==
  /\ pc = "done"
  /\ call.name = "read_mem"
  /\ call.addr = U32(0, 65000)
  /\ Len(call.data) = 2 * 992 + 1
  /\ result.tag = "ok"
  /\ Len(written) = 3

\* C14: against the mock device, write_mem(a, bs) returns Ok, and the
\* read_mem(a, ..) of |bs| bytes after it returns Ok with the buffer equal to
\* bs, after commands for exactly |bs| bytes from a on (of the calls no USB
\* transfer of which failed).
C14_WriteThenRead ==
  (pc = "done" /\ InMem /\ result.tag \notin {"UsbWrite", "UsbRead"}) =>
    /\ result.tag = "ok"
    /\ Len(written) = (Len(call.data) + 991) \div 992
    /\ call.name = "read_mem" =>
         /\ out = log[1].data
         /\ call.addr = log[1].addr

\* C13: read_mem_int returns Ok only when the reply unescapes to as many
\* bytes as were requested, and a reply (with its `OK:`) that unescapes to
\* fewer or to more bytes fails with the short-read error.
C13_LengthMustMatch ==
  (pc = "read" /\ StartsWith(ReplyPayload, <<CH_O, CH_K, COLON>>)) =>
    LET decoded == Len(Unescape(EscapedPart(ReplyPayload)))
    IN  /\ result.tag = "ok" => decoded = Len(op.data)
        /\ decoded < Len(op.data) => result.tag = "ShortRead"
        /\ decoded > Len(op.data) => result.tag = "ShortRead"

\* byte i (from 1, least significant first) of the 32-bit value v
LeByte(v, i) ==
  CASE i = 1 -> v.lo % 256 [] i = 2 -> v.lo \div 256
    [] i = 3 -> v.hi % 256 [] i = 4 -> v.hi \div 256

\* d is the eight lower-case hex digits of the four bytes of v, least
\* significant byte first
IsLeHexOf(d, v) ==
  /\ Len(d) = 8
  /\ \A i \in 1..8 : LowerHexValue(d[i]) >= 0
  /\ \A i \in 1..4 :
       16 * LowerHexValue(d[2 * i - 1]) + LowerHexValue(d[2 * i]) = LeByte(v, i)

\* d is the number r in lower-case hex digits without leading zeros
IsHexOf(d, r) ==
  /\ Len(d) >= 1
  /\ \A i \in 1..Len(d) : LowerHexValue(d[i]) >= 0
  /\ Len(d) > 1 => d[1] # 48
  /\ IF Len(d) = 1 THEN LowerHexValue(d[1]) = r
     ELSE Len(d) = 2 /\ 16 * LowerHexValue(d[1]) + LowerHexValue(d[2]) = r

\* frame f is `$P<r>=<v>#cc`
IsWriteRegFrame(f, r, v) ==
  /\ Len(f) >= 15
  /\ f[1] = DOLLAR
  /\ f[2] = CH_P
  /\ IsHexOf(SubSeq(f, 3, Len(f) - 12), r)
  /\ f[Len(f) - 11] = EQUALS
  /\ IsLeHexOf(SubSeq(f, Len(f) - 10, Len(f) - 3), v)
  /\ f[Len(f) - 2] = HASH

\* C15: write_reg(r, v) sends the body `P`, r in hex, `=` and the eight
\* lower-case hex digits of the four bytes of v, least significant byte
\* first; read_reg returns v when the reply payload is those eight digits,
\* and so returns the value written when the device answers with the digits
\* it was sent.
C15_RegisterRoundTrip ==
  /\ (op.name = "write_reg" /\ pc = "written") =>
       \A i \in 1..Len(written) : IsWriteRegFrame(written[i], op.regsel, op.val)
  /\ (op.name = "read_reg" /\ pc = "reg_read" /\ result.tag \notin {"UsbWrite", "UsbRead", "TooManyRetries"}) =>
       /\ \A v \in {U32(hi, lo) : hi \in RegHalves, lo \in RegHalves} :
            IsLeHexOf(ReplyPayload, v) => result = Ok(v)
       /\ (log[1].sent # <<>>
             /\ ReplyPayload = SubSeq(log[1].sent[1], Len(log[1].sent[1]) - 10,
                                      Len(log[1].sent[1]) - 3)) =>
            result = Ok(log[1].val)

\* 0xdeadbeef was written to register 0x19 as `P19=efbeadde` and read back
C15_Witness ==
  /\ pc = "reg_read"
  /\ op.regsel = 25
  /\ log[1].val = U32(57005, 48879)
  /\ log[1].sent = <<<<DOLLAR, CH_P, 49, 57, EQUALS,
                       101, 102, 98, 101, 97, 100, 100, 101, HASH, 49, 55>>>>
  /\ ReplyPayload = <<101, 102, 98, 101, 97, 100, 100, 101>>
  /\ result = Ok(U32(57005, 48879))

\* C20: write_reg returns an error when the reply payload to `P` is `E` and
\* two hex digits or is empty, and Ok only when the reply says OK.
C20_WriteRegChecksReply ==
  (op.name = "write_reg" /\ pc = "written" /\ written # <<>> /\ buf # <<>>) =>
    /\ (ReplyPayload = <<>> \/ ReplyPayload[1] = CH_E) => result.tag # "ok"
    /\ result.tag = "ok" => StartsWith(ReplyPayload, <<CH_O, CH_K>>)

\* the two characters after `E` are hex digits
IsErrorCode(p) ==
  /\ Len(p) = 3
  /\ p[1] = CH_E
  /\ HexDigitValue(p[2]) >= 0
  /\ HexDigitValue(p[3]) >= 0

\* the frame of run, halt and step
CtlFrame(name) ==
  IF name = "run" THEN <<DOLLAR, CH_c, HASH, 54, 51>>
  ELSE IF name = "halt" THEN <<DOLLAR, QUESTION, HASH, 51, 102>>
  ELSE <<DOLLAR, CH_s, HASH, 55, 51>>

\* what run, halt and step return for the reply they were given
CtlReturns ==
  (buf # <<>>) =>
     /\ IsErrorCode(ReplyPayload) =>
          /\ result.tag = "CommandFailed"
          /\ result.code = 16 * HexDigitValue(ReplyPayload[2]) + HexDigitValue(ReplyPayload[3])
     /\ (ReplyPayload # <<>> /\ (StartsWith(ReplyPayload, <<CH_O, CH_K>>) \/ ReplyPayload[1] # CH_E)) =>
          result = Ok(<<>>)

FrameQSupported ==
  <<DOLLAR, 113, 83, 117, 112, 112, 111, 114, 116, 101, 100, HASH, 51, 55>>
FrameBang == <<DOLLAR, BANG, HASH, 50, 49>>

\* the value of a payload `PacketSize=` and one to four lower-case hex
\* digits, -1 for any other payload
PacketSizeIn(p) ==
  IF /\ Len(p) \in 12..15
     /\ SubSeq(p, 1, 11) = <<80, 97, 99, 107, 101, 116, 83, 105, 122, 101, 61>>
     /\ \A i \in 12..Len(p) : LowerHexValue(p[i]) >= 0
  THEN Hex4Value(SubSeq(<<48, 48, 48>> \o SubSeq(p, 12, Len(p)), Len(p) - 11, Len(p) - 8))
  ELSE -1

\* C16: attach writes exactly two frames, `$qSupported#37` and then `$!#21`;
\* `!` is sent only after the reply to qSupported was received and accepted;
\* and after a successful attach whose qSupported reply holds
\* `PacketSize=<hex>`, max_packet_size is that value.
C16_Attach ==
  (op.name = "attach") =>
     /\ (result.tag = "ok") => written = <<FrameQSupported, FrameBang>>
     /\ (FrameBang \in Range(written)) =>
          /\ written = <<FrameQSupported, FrameBang>>
          /\ call.replies # <<>>
          /\ GetPayload(call.replies[1]).val # <<>>
          /\ GetPayload(call.replies[1]).val[1] # CH_E
     /\ (result.tag = "ok" /\ PacketSizeIn(GetPayload(call.replies[1]).val) >= 0) =>
          max_packet_size = PacketSizeIn(GetPayload(call.replies[1]).val)

\* the state of the lifecycle after the operations of the log: Created,
\* Attached after an attach that succeeded, Detached for good after a detach
\* that succeeded
RECURSIVE Lifecycle(_)
Lifecycle(l) ==
  IF l = <<>> THEN "Created"
  ELSE LET s == Lifecycle(SubSeq(l, 1, Len(l) - 1))
           e == l[Len(l)]
       IN  IF s = "Created" /\ e.name = "attach" /\ e.ok THEN "Attached"
           ELSE IF s = "Attached" /\ e.name = "detach" /\ e.ok THEN "Detached"
           ELSE s

\* the operations valid only in Attached
NeedAttached == {"run", "halt", "step", "read_8", "write_8"}

\* C17: the lifecycle of the probe is Created -> Attached -> Detached: run,
\* halt, step and the memory operations issued when the probe is not
\* Attached are rejected and send no frame, and an attach after the detach
\* does not attach the probe again.
C17_Lifecycle ==
  /\ (op.name \in NeedAttached /\ Lifecycle(log) # "Attached") =>
       /\ written = <<>>
       /\ result.tag # "ok"
  /\ (op.name = "attach" /\ Lifecycle(log) = "Detached") => result.tag # "ok"

\* the transfer has returned the error of a chunk
ChunkFailed == pc = "done" /\ InMem /\ result.tag \notin {"ok", "panic"}

\* the chunks that succeeded before the one that failed
ChunksBefore == call.pos \div 992

\* what holds when a chunk has failed, and after every reply `Exx`
AtFailure ==
  /\ ChunkFailed =>
       /\ call.pos = 992 * ChunksBefore
       /\ call.pos < Len(call.data)
       /\ call.cur = AddrPlus(call.addr, call.pos)
       /\ op.addr = call.cur
       /\ Len(written) = ChunksBefore + (IF result.tag = "UsbWrite" THEN 0 ELSE 1)
       /\ \A i \in 1..Len(written) :
            IsMemCommand(written[i], IF call.name = "read_mem" THEN CH_x ELSE CH_X,
                         AddrPlus(call.addr, 992 * (i - 1)),
                         Min(992, Len(call.data) - 992 * (i - 1)))
       /\ result.tag \in {"UsbWrite", "UsbRead", "CommandFailed", "ShortRead", "OkMissing"}
  /\ (InMem /\ buf # <<>> /\ pc \in {"add", "done"} /\ Len(ReplyPayload) = 3
        /\ ReplyPayload[1] = CH_E) =>
       /\ result.tag = "CommandFailed"
       /\ pc = "done"

\* C21: when the command of chunk k of a read_mem or write_mem fails (a USB
\* error, an `Exx` reply, a short read), the call returns that error; the
\* commands written are those of the chunks up to k, in order, each chunk
\* before k has succeeded, and once the call has returned no further command
\* is written.
C21_StopsAtFirstFailure ==
  /\ []AtFailure
  /\ [][ChunkFailed => (written' = written /\ result' = result)]_vars

\* the third chunk of a read of two chunks and a byte got the reply `E05`
\* after two chunks that succeeded: three commands were written and the
\* call returned the error
C21_Witness ==
  /\ ChunkFailed
  /\ call.name = "read_mem"
  /\ Len(call.data) = MaxChunks * 992 + 1
  /\ call.pos = MaxChunks * 992
  /\ Len(written) = MaxChunks + 1
  /\ result.tag = "CommandFailed"
  /\ result.code = 5

\* the chunk size the negotiated maximum packet size gives
NegotiatedChunk == (((max_packet_size - 64) \div 4) * 4) \div 2

\* C22: the chunk size of read_mem and write_mem is ((max - 64) / 4) * 4 / 2
\* for the current max_packet_size: that is 2048 (chunk size 992) until a
\* qSupported reply is processed, and after a reply with `PacketSize=<hex>`
\* the commands are for chunks of the size the new value gives.
C22_ChunkSizeFollows ==
  (written # <<>>) =>
    /\ (log = <<>>) => max_packet_size = 2048
    /\ (log # <<>> /\ PacketSizeIn(GetPayload(log[1].reply).val) >= 0) =>
         max_packet_size = PacketSizeIn(GetPayload(log[1].reply).val)
    /\ \A i \in 1..Len(written) :
         IsMemCommand(written[i], IF call.name = "read_mem" THEN CH_x ELSE CH_X,
                      AddrPlus(call.addr, NegotiatedChunk * (i - 1)),
                      Min(NegotiatedChunk, Len(call.data) - NegotiatedChunk * (i - 1)))

\* C23: the writes of frames and the receptions of replies alternate: a
\* frame is written only when every frame written before it in the
\* operation has had its reply received completely (a resend), or as the
\* first frame of an operation, which begins only after the operation before
\* it returned a reply or an error; while a reply is awaited exactly one
\* frame is without its reply.
C23_Alternation ==
  /\ [](pc = "recv" => Len(written) = Len(acks) + 1)
  /\ [](pc = "ack" => (Len(written) = Len(acks) + 1 /\ Complete(buf)))
  /\ [](pc = "write" => Len(written) = Len(acks))
  /\ [](pc \in {"done", "idle"} =>
          \/ result = None /\ written = <<>>
          \/ result.tag \in {"UsbWrite", "ShortWrite"} /\ Len(written) = Len(acks)
          \/ result.tag \in {"UsbRead", "BufferFull"} /\ Len(written) = Len(acks) + 1
          \/ /\ result.tag \notin {"none", "UsbWrite", "ShortWrite", "UsbRead", "BufferFull"}
             /\ Len(written) = Len(acks)
             /\ Complete(buf))
  /\ [][Len(written') > Len(written) =>
          /\ written' = Append(written, frame)
          /\ Len(acks) = Len(written)
          /\ (written # <<>>) => (Complete(buf) /\ buf[1] # PLUS)]_vars
  /\ [][Len(acks') > Len(acks) =>
          /\ Complete(buf)
          /\ acks' = Append(acks, buf[1])
          /\ Len(acks') = Len(written)]_vars
  /\ [][(written' = <<>> /\ pc' = "write") => pc = "idle"]_vars

\* the frame was written a second time, after the reply `-$OK#9a` to the
\* first was received in two reads, and its reply is awaited
C23_Witness ==
  /\ pc = "recv"
  /\ Len(written) = 2
  /\ written[1] = written[2]
  /\ acks = <<MINUS>>
  /\ buf = <<>>

\* C24: send_packet terminates: whatever the device does, every read_bulk
\* returning some bytes, no byte, or an error, the call returns.
C24_Terminates == <>(pc = "done")

\* C25: for every buffer from_bulk_receive can return, get_payload returns
\* a slice or the framing error and never fails on an out-of-range slice;
\* when no `$` precedes the last `#` it returns the framing error.
C25_GetPayloadNoPanic ==
  (pc = "payload" /\ Complete(buf)) =>
    /\ result.tag \in {"ok", "Malformed"}
    /\ (\A i \in 1..Len(buf) : \A j \in 1..Len(buf) :
          (buf[i] = DOLLAR /\ buf[j] = HASH) => i > j) => result.tag = "Malformed"

\* C26: for a region that lies inside the 32-bit address space, one that
\* ends at 2^32 included, no addition to the address cursor of read_mem and
\* write_mem overflows, and when no chunk fails the transfer returns Ok.
C26_CursorNeverOverflows ==
  (InMem /\ AddrPlus(call.addr, Len(call.data)).hi <= 65536
         /\ (AddrPlus(call.addr, Len(call.data)).hi = 65536 =>
               AddrPlus(call.addr, Len(call.data)).lo = 0)) =>
    /\ (pc = "add") => AddrPlus(call.cur, Len(op.data)).hi < 65536
    /\ (pc = "done") => result # Panic
    /\ (pc = "done" /\ Len(written) = (Len(call.data) + 991) \div 992
          /\ Len(acks) = Len(written) /\ ReplyPayload # <<>>
          /\ StartsWith(ReplyPayload, <<CH_O, CH_K>>)) => result.tag = "ok"

\* C27: a chunk of the largest size (992 bytes) in which every byte needs the
\* escape makes an `X` frame of `$`, the 19 bytes of the header, 1984 escaped
\* bytes and `#cc`, no longer than the maximum packet size of 2048; the reply
\* to an `x` of 992 such bytes (`+$`, `OK:`, 1984 escaped bytes, `#cc`) fits
\* the 2048 bytes of the ReceiveBuffer, so that no chunk of read_mem or
\* write_mem ends with the error of the exhausted buffer
IsChunk == Len(op.data) <= ICDI_MAX_RW_PACKET
EveryByteEscaped == Len(Escape(memory)) = 2 * Len(memory)
C27_MaximalChunkFits ==
  (pc # "idle" /\ memory # EmptyStore /\ IsChunk) =>
    /\ Len(frame) <= 1 + 19 + 2 * ICDI_MAX_RW_PACKET + 3
    /\ Len(frame) <= ICDI_MAX_PACKET_SIZE
    /\ \A i \in 1..Len(written) : Len(written[i]) <= ICDI_MAX_PACKET_SIZE
    /\ (op.name = "write_mem_int" /\ EveryByteEscaped
          /\ Len(op.data) = ICDI_MAX_RW_PACKET) => Len(frame) = 2007
    /\ Len(buf) <= 2 + 3 + 2 * ICDI_MAX_RW_PACKET + 3
    /\ Len(buf) <= BUF_SIZE
    /\ result.tag # "BufferFull"
    /\ (pc = "ack" /\ op.name = "read_mem_int" /\ EveryByteEscaped
          /\ Len(op.data) = ICDI_MAX_RW_PACKET) => Len(buf) = 1992
    /\ (pc = "done" /\ acks # <<>>) =>
         /\ buf = MaxReply
         /\ result.tag = "ok"
         /\ op.name = "read_mem_int" => out = memory

C27_Witness ==
  /\ pc = "done"
  /\ op.name = "read_mem_int"
  /\ Len(op.data) = 992
  /\ EveryByteEscaped
  /\ Len(written) = 1
  /\ Len(written[1]) = Len(ReadMemBuf(op.addr, 992)) + 3
  /\ Len(buf) = 1992
  /\ result.tag = "ok"
  /\ out = memory


\* the value eight hex digits of either case write, least significant byte
\* first
HexByteAt(d, i) == 16 * HexDigitValue(d[2 * i - 1]) + HexDigitValue(d[2 * i])
LeValueOf(d) ==
  U32(HexByteAt(d, 4) * 256 + HexByteAt(d, 3), HexByteAt(d, 2) * 256 + HexByteAt(d, 1))
EightHexDigits(d) == Len(d) = 8 /\ \A i \in 1..8 : HexDigitValue(d[i]) >= 0
ReadRegAnswered ==
  /\ op.name = "read_reg"
  /\ pc = "reg_read"
  /\ result.tag \notin {"UsbWrite", "UsbRead", "TooManyRetries"}

\* C28: read_reg returns the little-endian value of every reply payload of
\* exactly eight hex digits of either case, a first digit `E` included (a
\* value such as `E0000000` is not taken for an error), and it returns an
\* error value, with no access out of range, when the payload is `E` and
\* less than two bytes.
C28_DataIsNotAnError ==
  ReadRegAnswered =>
    /\ EightHexDigits(ReplyPayload) => result = Ok(LeValueOf(ReplyPayload))
    /\ (StartsWith(ReplyPayload, <<CH_E>>) /\ Len(ReplyPayload) < 3) =>
         result.tag \notin {"ok", "panic"}


====
